---- MODULE Spec2Model ----
(***************************************************************************)
(* Model of the claude-hooks policy checks (steeef/claude-hooks).          *)
(*                                                                         *)
(* Strings are TLA+ strings handled character by character (Len, SubSeq,   *)
(* \o), so that the parsing the hooks do (splitting, trimming, prefix and  *)
(* substring tests, basenames) is computed the way the Python code         *)
(* computes it.  Every hook invocation is one process run: `request` is    *)
(* the decoded JSON input, `result` what the hook or check returns, and    *)
(* `pc` the position of the run.  The repository and the file system the   *)
(* git queries look at are the variable `repo`; the speed-bump marker is   *)
(* `flag_file`.                                                            *)
(***************************************************************************)
EXTENDS Integers, Sequences, FiniteSets, TLC

VARIABLES
    pc,         \* "start" (input decoded, nothing run yet) or "done"
    request,    \* the input of the run: [op |-> ..., ...]
    repo,       \* what the external queries (git, file system) answer
    flag_file,  \* TRUE iff .claude_file_length_warning.flag exists
    result,     \* what the run returned
    history     \* verdicts of the over-limit file-length calls so far

vars == <<pc, request, repo, flag_file, result, history>>

NoRepo == [kind |-> "none"]
NoResult == [verdict |-> "none"]

(***************************************************************************)
(* Python string primitives.                                               *)
(***************************************************************************)
Char(s, i) == IF 1 <= i /\ i <= Len(s) THEN SubSeq(s, i, i) ELSE ""

IsSpace(c) == c \in {" ", "\t", "\n"}

\* s.startswith(p)
StartsWith(s, p) == Len(s) >= Len(p) /\ SubSeq(s, 1, Len(p)) = p

\* s.endswith(p)
EndsWith(s, p) == Len(s) >= Len(p) /\ SubSeq(s, Len(s) - Len(p) + 1, Len(s)) = p

\* s[i:] starts with p (1-based i)
MatchAt(s, i, p) == i + Len(p) - 1 <= Len(s) /\ SubSeq(s, i, i + Len(p) - 1) = p

\* p in s
Contains(s, p) == \E i \in 1..(Len(s) - Len(p) + 1) : MatchAt(s, i, p)

RECURSIVE LStrip(_)
LStrip(s) == IF Len(s) > 0 /\ IsSpace(Char(s, 1)) THEN LStrip(Tail(s)) ELSE s

RECURSIVE RStrip(_)
RStrip(s) ==
    IF Len(s) > 0 /\ IsSpace(Char(s, Len(s)))
    THEN RStrip(SubSeq(s, 1, Len(s) - 1)) ELSE s

\* s.strip()
Strip(s) == LStrip(RStrip(s))

\* s.rstrip('/')
RECURSIVE RStripSlash(_)
RStripSlash(s) ==
    IF Len(s) > 0 /\ Char(s, Len(s)) = "/"
    THEN RStripSlash(SubSeq(s, 1, Len(s) - 1)) ELSE s

\* the first position j in i..n with P(j), n + 1 when there is none
FirstFrom(P(_), i, n) ==
    IF \E j \in i..n : P(j)
    THEN CHOOSE j \in i..n : P(j) /\ \A k \in i..(j - 1) : ~P(k)
    ELSE n + 1

\* s.split(): the maximal runs of non-whitespace characters, in order; the
\* words of s from position i on
RECURSIVE SplitWS(_, _)
SplitWS(s, i) ==
    LET b == FirstFrom(LAMBDA j : ~IsSpace(Char(s, j)), i, Len(s))
        e == FirstFrom(LAMBDA j : IsSpace(Char(s, j)), b, Len(s))
    IN IF b > Len(s) THEN <<>>
       ELSE <<SubSeq(s, b, e - 1)>> \o SplitWS(s, e)

Split(s) == SplitWS(s, 1)

\* ' '.join(parts)
RECURSIVE JoinSp(_)
JoinSp(parts) ==
    IF Len(parts) = 0 THEN ""
    ELSE IF Len(parts) = 1 THEN parts[1]
    ELSE parts[1] \o " " \o JoinSp(Tail(parts))

\* ' '.join(command.strip().split())
Normalize(command) == JoinSp(Split(Strip(command)))

\* the elements of a sequence, and filtering one
Range(seq) == {seq[i] : i \in 1..Len(seq)}

(***************************************************************************)
(* command_utils.extract_subcommands (and its copy in                      *)
(* git_branch_workflow):  re.split(r'\s*(?:&&|\|\||;)\s*', command), then  *)
(* strip every piece and drop the empty ones.  The leftmost match of the   *)
(* pattern is at the leftmost operator; the whitespace the pattern eats    *)
(* around it is whitespace strip() removes anyway.  The pattern knows      *)
(* nothing about quotes.                                                   *)
(***************************************************************************)
OperatorAt(s, i) ==
    IF MatchAt(s, i, "&&") \/ MatchAt(s, i, "||") THEN 2
    ELSE IF MatchAt(s, i, ";") THEN 1
    ELSE 0

\* the pieces re.split returns, before trimming: s from position i on, cut
\* at every operator, the leftmost first
RECURSIVE ReSplitOps(_, _)
ReSplitOps(s, i) ==
    LET j == FirstFrom(LAMBDA k : OperatorAt(s, k) > 0, i, Len(s))
    IN IF j > Len(s) THEN <<SubSeq(s, i, Len(s))>>
       ELSE <<SubSeq(s, i, j - 1)>> \o ReSplitOps(s, j + OperatorAt(s, j))

RECURSIVE StripAndDropEmpty(_)
StripAndDropEmpty(pieces) ==
    IF Len(pieces) = 0 THEN <<>>
    ELSE IF Strip(pieces[1]) = "" THEN StripAndDropEmpty(Tail(pieces))
    ELSE <<Strip(pieces[1])>> \o StripAndDropEmpty(Tail(pieces))

extract_subcommands(command) ==
    IF command = "" THEN <<>>
    ELSE StripAndDropEmpty(ReSplitOps(command, 1))

(***************************************************************************)
(* Specification SpecSplit: extract_subcommands applied to chained         *)
(* commands.                                                               *)
(***************************************************************************)
MaxChain == 3

SplitSegments ==
    {"cd /tmp", "git add .", "git commit -m 'msg'", "git commit -m 'a && b'",
     "echo \"x;y\"", " "}

SplitOperators == {" && ", "||", ";"}

RECURSIVE Chains(_, _, _)
Chains(segs, ops, n) ==
    IF n <= 1 THEN segs
    ELSE Chains(segs, ops, n - 1) \cup
         {c \o o \o s : c \in Chains(segs, ops, n - 1), o \in ops, s \in segs}

SplitCommands == {""} \cup Chains(SplitSegments, SplitOperators, MaxChain)

InitSplit ==
    /\ pc = "start"
    /\ request \in [op : {"extract_subcommands"}, command : SplitCommands]
    /\ repo = NoRepo
    /\ flag_file = FALSE
    /\ result = NoResult
    /\ history = <<>>

ExtractSubcommands ==
    /\ pc = "start"
    /\ request.op = "extract_subcommands"
    /\ result' = [verdict |-> "none",
                  subcommands |-> extract_subcommands(request.command)]
    /\ pc' = "done"
    /\ UNCHANGED <<request, repo, flag_file, history>>

NextSplit == ExtractSubcommands

SpecSplit == InitSplit /\ [][NextSplit]_vars

(***************************************************************************)
(* What a shell chains: the command cut at the operators that stand        *)
(* outside single and double quotes, every piece trimmed, empty pieces     *)
(* dropped.                                                                *)
(***************************************************************************)
\* the pieces of s from position p on, i being the next position to look at:
\* a quote opened at j closes at the next occurrence of the same character,
\* and never when there is none
RECURSIVE TopLevelPieces(_, _, _)
TopLevelPieces(s, p, i) ==
    LET j == FirstFrom(LAMBDA k : Char(s, k) \in {"'", "\""} \/ OperatorAt(s, k) > 0,
                       i, Len(s))
        close == FirstFrom(LAMBDA k : Char(s, k) = Char(s, j), j + 1, Len(s))
    IN IF j > Len(s) THEN <<SubSeq(s, p, Len(s))>>
       ELSE IF OperatorAt(s, j) > 0
            THEN <<SubSeq(s, p, j - 1)>>
                 \o TopLevelPieces(s, j + OperatorAt(s, j), j + OperatorAt(s, j))
       ELSE IF close > Len(s) THEN <<SubSeq(s, p, Len(s))>>
       ELSE TopLevelPieces(s, p, close + 1)

ChainedCommands(s) == StripAndDropEmpty(TopLevelPieces(s, 1, 1))

SplitDone == pc = "done" /\ request.op = "extract_subcommands"

\* C10: extract_subcommands returns exactly the commands chained at top
\* level by &&, || and ; (an operator inside quotes does not split), each
\* trimmed, none empty, in left-to-right order and in the same number.
C10_SplitsOnlyAtTopLevel ==
    SplitDone => result.subcommands = ChainedCommands(request.command)

(***************************************************************************)
(* file-protection: file_length_check.py, claude_md_check.py, file_hook.py *)
(*                                                                         *)
(* A content is modelled by the number of lines splitlines() counts in it, *)
(* a file on disk by whether it exists, can be read, and its line count.   *)
(* An Edit is modelled by what str.replace does to the line count: the     *)
(* request carries the number of occurrences of old_string in the current  *)
(* content (old_count) and the lines one replacement adds (line_delta).    *)
(***************************************************************************)
MAX_FILE_LINES == 10000

SOURCE_CODE_EXTENSIONS ==
    {".py", ".tsx", ".ts", ".jsx", ".js", ".rs", ".c", ".cpp", ".cc", ".cxx",
     ".h", ".hpp", ".go", ".java", ".kt", ".swift", ".rb", ".php", ".cs",
     ".scala", ".m", ".mm", ".r", ".jl"}

UpperLetters == "ABCDEFGHIJKLMNOPQRSTUVWXYZ"
LowerLetters == "abcdefghijklmnopqrstuvwxyz"

LowerChar(c) ==
    IF \E i \in 1..Len(UpperLetters) : Char(UpperLetters, i) = c
    THEN Char(LowerLetters, CHOOSE i \in 1..Len(UpperLetters) : Char(UpperLetters, i) = c)
    ELSE c

\* s.lower(), character by character
RECURSIVE Lower(_)
Lower(s) ==
    IF Len(s) <= 1 THEN LowerChar(s)
    ELSE Lower(SubSeq(s, 1, Len(s) \div 2)) \o Lower(SubSeq(s, Len(s) \div 2 + 1, Len(s)))

\* s.rfind(c), 1-based, 0 when absent
RFind(s, c) ==
    IF \E i \in 1..Len(s) : Char(s, i) = c
    THEN CHOOSE i \in 1..Len(s) : Char(s, i) = c /\ \A k \in (i + 1)..Len(s) : Char(s, k) # c
    ELSE 0

\* os.path.basename(p): what follows the last '/'
Basename(p) == SubSeq(p, RFind(p, "/") + 1, Len(p))

\* pathlib: Path(p).name drops trailing slashes first
PathName(p) == Basename(RStripSlash(p))

\* pathlib: Path(p).suffix, the last dot of the name and what follows it,
\* unless that dot starts or ends the name
PathSuffix(p) ==
    LET name == PathName(p)
        i == RFind(name, ".")
    IN IF 1 < i /\ i < Len(name) THEN SubSeq(name, i, Len(name)) ELSE ""

is_source_code_file(file_path) ==
    IF file_path = "" THEN FALSE
    ELSE Lower(PathSuffix(file_path)) \in SOURCE_CODE_EXTENSIONS

\* lines of the file after the operation; fs is the file on disk
get_resulting_line_count(tool_name, tool_input, fs) ==
    IF tool_name = "Write" THEN tool_input.content_lines
    ELSE IF tool_name = "Edit"
    THEN IF ~fs.exists \/ ~fs.readable THEN 0
         ELSE IF tool_input.replace_all
              THEN fs.lines + tool_input.old_count * tool_input.line_delta
              ELSE fs.lines + (IF tool_input.old_count > 0 THEN tool_input.line_delta ELSE 0)
    ELSE 0

\* the request reaches the flag-file stage of check_file_length_limit
OverLimit(data, fs) ==
    /\ data.tool_name \in {"Edit", "Write"}
    /\ is_source_code_file(data.tool_input.file_path)
    /\ get_resulting_line_count(data.tool_name, data.tool_input, fs) > MAX_FILE_LINES

\* a plausible slip: the marker is found but never deleted
check_file_length_limit_keeps_flag(data, flag, fs) ==
    IF ~OverLimit(data, fs) THEN [verdict |-> "allow", flag |-> flag]
    ELSE IF flag THEN [verdict |-> "allow", flag |-> flag]
    ELSE [verdict |-> "deny", flag |-> TRUE]

\* a plausible slip: every allowed call clears the marker
check_file_length_limit_clears_on_allow(data, flag, fs) ==
    IF ~OverLimit(data, fs) THEN [verdict |-> "allow", flag |-> FALSE]
    ELSE IF flag THEN [verdict |-> "allow", flag |-> FALSE]
    ELSE [verdict |-> "deny", flag |-> TRUE]

\* (should_block, reason) as a verdict, and the marker the call leaves
check_file_length_limit(data, flag, fs) ==
    IF data.tool_name \notin {"Edit", "Write"} THEN [verdict |-> "allow", flag |-> flag]
    ELSE IF ~is_source_code_file(data.tool_input.file_path)
         THEN [verdict |-> "allow", flag |-> flag]
    ELSE IF get_resulting_line_count(data.tool_name, data.tool_input, fs) <= MAX_FILE_LINES
         THEN [verdict |-> "allow", flag |-> flag]
    ELSE IF flag THEN [verdict |-> "allow", flag |-> FALSE]   \* unlink
    ELSE [verdict |-> "deny", flag |-> TRUE]                  \* touch

\* os.path.normpath, for the paths of the model: trailing slashes dropped
NormPath(p) == IF RStripSlash(p) = "" THEN (IF p = "" THEN "." ELSE "/") ELSE RStripSlash(p)

check_claude_md_write(tool_name, tool_input) ==
    IF tool_name \notin {"Write", "Edit", "MultiEdit"} THEN "allow"
    ELSE IF tool_input.file_path = "" THEN "allow"
    ELSE LET normalized_path == Lower(NormPath(tool_input.file_path))
         IN IF EndsWith(normalized_path, "/claude.md") \/ normalized_path = "claude.md"
            THEN "block" ELSE "allow"

(***************************************************************************)
(* Specification SpecFile: a sequence of hook invocations on Write/Edit    *)
(* requests, sharing the marker file.                                      *)
(***************************************************************************)
MaxCalls == 4

FilePaths == {"a.py", "src/Main.JAVA", "notes.md", "docs/CLAUDE.md", ""}

WriteInputs ==
    [file_path : FilePaths, content_lines : {0, MAX_FILE_LINES, MAX_FILE_LINES + 1},
     old_count : {0}, line_delta : {0}, replace_all : {FALSE}]

EditInputs ==
    [file_path : {"a.py", "notes.md"}, content_lines : {0},
     old_count : {0, 1, 2}, line_delta : {0, 1}, replace_all : BOOLEAN]

FileRequests ==
    [op : {"check_file_length_limit", "file_hook"}, tool_name : {"Write"},
     tool_input : WriteInputs]
    \cup [op : {"check_file_length_limit", "file_hook"}, tool_name : {"Edit"},
          tool_input : EditInputs]
    \cup [op : {"file_hook"}, tool_name : {"Read", "MultiEdit"},
          tool_input : {t \in WriteInputs : t.content_lines = 0}]

FileSystems ==
    [kind : {"fs"}, exists : {FALSE}, readable : {FALSE}, lines : {0}]
    \cup [kind : {"fs"}, exists : {TRUE}, readable : {FALSE}, lines : {MAX_FILE_LINES}]
    \cup [kind : {"fs"}, exists : {TRUE}, readable : {TRUE},
          lines : {MAX_FILE_LINES - 1, MAX_FILE_LINES}]

\* the file system an Edit reads; a Write reads none
FileSystemsOf(req) ==
    IF req.tool_name = "Edit" THEN FileSystems
    ELSE {[kind |-> "fs", exists |-> FALSE, readable |-> FALSE, lines |-> 0]}

InitFile ==
    /\ pc = "start"
    /\ request \in FileRequests
    /\ repo \in FileSystemsOf(request)
    /\ flag_file = FALSE
    /\ result = NoResult
    /\ history = <<>>

Logged(data, flag, fs, r) ==
    IF OverLimit(data, fs)
    THEN Append(history, [before |-> flag, verdict |-> r.verdict, after |-> r.flag])
    ELSE history

\* file_length_check.py run as a script: one call of check_file_length_limit
CheckFileLengthLimit ==
    /\ pc = "start"
    /\ request.op = "check_file_length_limit"
    /\ LET r == check_file_length_limit(request, flag_file, repo)
       IN /\ result' = [verdict |-> r.verdict]
          /\ flag_file' = r.flag
          /\ history' = Logged(request, flag_file, repo, r)
    /\ pc' = "done"
    /\ UNCHANGED <<request, repo>>

\* file_hook.main: CLAUDE.md protection first, then the file-length check
file_hook_main(data, flag, fs) ==
    IF check_claude_md_write(data.tool_name, data.tool_input) = "block"
    THEN [verdict |-> "deny", flag |-> flag, length_called |-> FALSE]
    ELSE LET r == check_file_length_limit(data, flag, fs)
         IN [verdict |-> r.verdict, flag |-> r.flag, length_called |-> TRUE]

FileHook ==
    /\ pc = "start"
    /\ request.op = "file_hook"
    /\ LET r == file_hook_main(request, flag_file, repo)
       IN /\ result' = [verdict |-> r.verdict]
          /\ flag_file' = r.flag
          /\ history' = IF r.length_called THEN Logged(request, flag_file, repo, r)
                        ELSE history
    /\ pc' = "done"
    /\ UNCHANGED <<request, repo>>

\* the host starts the next invocation with the next tool request
NextFileRequest ==
    /\ pc = "done"
    /\ request.op \in {"check_file_length_limit", "file_hook"}
    /\ Len(history) < MaxCalls
    /\ request' \in FileRequests
    /\ repo' \in FileSystemsOf(request')
    /\ result' = NoResult
    /\ pc' = "start"
    /\ UNCHANGED <<flag_file, history>>

NextFile == CheckFileLengthLimit \/ FileHook \/ NextFileRequest

SpecFile == InitFile /\ [][NextFile]_vars

\* C1: starting with no marker, the over-limit calls of
\* check_file_length_limit get the verdicts Deny, Allow, Deny, ... in strict
\* alternation; each is denied iff the marker is absent when it starts, a
\* Deny leaves the marker present and an Allow leaves it absent.
C1_SpeedBumpAlternates ==
    \A i \in 1..Len(history) :
        /\ history[i].verdict = (IF i % 2 = 1 THEN "deny" ELSE "allow")
        /\ (history[i].verdict = "deny") <=> ~history[i].before
        /\ history[i].verdict = "deny" => history[i].after
        /\ history[i].verdict = "allow" => ~history[i].after
        /\ (i = Len(history) => flag_file = history[i].after)

C1_Witness ==
    /\ Len(history) >= 3
    /\ history[1].verdict = "deny"
    /\ history[2].verdict = "allow"
    /\ history[3].verdict = "deny"
    /\ flag_file

(***************************************************************************)
(* shlex.split (POSIX mode) for commands without backslashes: words are    *)
(* separated by whitespace, a quoted stretch belongs to its word with the  *)
(* quotes removed, and an unclosed quote raises ValueError (ok = FALSE).   *)
(***************************************************************************)
\* the words of s from position i on; cur is what the word being read holds
\* so far and started says whether there is such a word
RECURSIVE ShlexScan(_, _, _, _)
ShlexScan(s, i, cur, started) ==
    LET j == FirstFrom(LAMBDA k : IsSpace(Char(s, k)) \/ Char(s, k) \in {"'", "\""},
                       i, Len(s))
        word == cur \o SubSeq(s, i, j - 1)
        has_word == started \/ j > i
        close == FirstFrom(LAMBDA k : Char(s, k) = Char(s, j), j + 1, Len(s))
    IN IF j > Len(s)
       THEN [ok |-> TRUE, parts |-> IF has_word THEN <<word>> ELSE <<>>]
       ELSE IF IsSpace(Char(s, j))
            THEN LET rest == ShlexScan(s, j + 1, "", FALSE)
                 IN IF has_word
                    THEN [ok |-> rest.ok,
                          parts |-> IF rest.ok THEN <<word>> \o rest.parts ELSE <<>>]
                    ELSE rest
       ELSE IF close > Len(s) THEN [ok |-> FALSE, parts |-> <<>>]    \* No closing quotation
       ELSE ShlexScan(s, close + 1, word \o SubSeq(s, j + 1, close - 1), TRUE)

ShlexSplit(s) == ShlexScan(s, 1, "", FALSE)

WordChars == UpperLetters \o LowerLetters \o "0123456789_"

\* \w of the regular expressions
IsWordChar(c) == Len(c) = 1 /\ Contains(WordChars, c)

(***************************************************************************)
(* command-safety: rm_check.py                                             *)
(* repo.in_repo is the answer of `git rev-parse --git-dir`, repo.ignored   *)
(* the paths `git check-ignore -q` answers 0 for.                          *)
(***************************************************************************)
is_in_git_repo(r) == r.in_repo

is_git_ignored(r, path) == path \in r.ignored

\* "rm" followed by a word boundary at position i
RmWordAt(s, i) ==
    /\ MatchAt(s, i, "rm")
    /\ (i + 2 > Len(s) \/ ~IsWordChar(Char(s, i + 2)))

\* (/\S*/)?rm\b matches at position i
RmInvocationAt(s, i) ==
    \/ RmWordAt(s, i)
    \/ /\ Char(s, i) = "/"
       /\ \E q \in (i + 1)..Len(s) :
            /\ Char(s, q) = "/"
            /\ \A k \in i..q : ~IsSpace(Char(s, k))
            /\ RmWordAt(s, q + 1)

\* re.search(r'(^|[;&|]\s*)(/\S*/)?rm\b', s)
RmPatternFound(s) ==
    \/ RmInvocationAt(s, 1)
    \/ \E i \in 1..Len(s) :
         /\ Char(s, i) \in {";", "&", "|"}
         /\ \E j \in (i + 1)..(Len(s) + 1) :
              /\ \A k \in (i + 1)..(j - 1) : IsSpace(Char(s, k))
              /\ RmInvocationAt(s, j)

IsRmCommand(normalized_cmd) ==
    \/ StartsWith(normalized_cmd, "rm ")
    \/ normalized_cmd = "rm"
    \/ RmPatternFound(normalized_cmd)

RECURSIVE RmTargetsOf(_, _)
RmTargetsOf(parts, i) ==
    IF i > Len(parts) THEN <<>>
    ELSE IF i = 1 /\ (parts[i] = "rm" \/ EndsWith(parts[i], "/rm"))
         THEN RmTargetsOf(parts, i + 1)
    ELSE IF StartsWith(parts[i], "-") THEN RmTargetsOf(parts, i + 1)
    ELSE <<parts[i]>> \o RmTargetsOf(parts, i + 1)

extract_rm_targets(command) ==
    LET sp == ShlexSplit(command)
    IN IF ~sp.ok THEN <<>> ELSE RmTargetsOf(sp.parts, 1)

\* the targets check_rm_command reports as not ignored
RECURSIVE NonIgnoredTargets(_, _)
NonIgnoredTargets(r, targets) ==
    IF Len(targets) = 0 THEN <<>>
    ELSE (IF ~is_git_ignored(r, RStripSlash(targets[1])) THEN <<targets[1]>> ELSE <<>>)
         \o NonIgnoredTargets(r, Tail(targets))

\* a plausible slip: the target is queried with its trailing slash
RECURSIVE NonIgnoredTargetsUnstripped(_, _)
NonIgnoredTargetsUnstripped(r, targets) ==
    IF Len(targets) = 0 THEN <<>>
    ELSE (IF ~is_git_ignored(r, targets[1]) THEN <<targets[1]>> ELSE <<>>)
         \o NonIgnoredTargetsUnstripped(r, Tail(targets))

check_rm_command_unstripped(command, r) ==
    LET normalized_cmd == Normalize(command)
    IN IF ~IsRmCommand(normalized_cmd) THEN [verdict |-> "allow", reason |-> "none"]
       ELSE IF ~is_in_git_repo(r) THEN [verdict |-> "deny", reason |-> "outside_repo"]
       ELSE IF Len(NonIgnoredTargetsUnstripped(r, extract_rm_targets(normalized_cmd))) > 0
            THEN [verdict |-> "deny", reason |-> "non_ignored"]
       ELSE [verdict |-> "allow", reason |-> "none"]

\* (should_block, reason): the verdict and which reason text is given
check_rm_command(command, r) ==
    LET normalized_cmd == Normalize(command)
    IN IF ~IsRmCommand(normalized_cmd) THEN [verdict |-> "allow", reason |-> "none"]
       ELSE IF ~is_in_git_repo(r) THEN [verdict |-> "deny", reason |-> "outside_repo"]
       ELSE LET targets == extract_rm_targets(normalized_cmd)
            IN IF Len(targets) = 0 THEN [verdict |-> "allow", reason |-> "none"]
               ELSE IF Len(NonIgnoredTargets(r, targets)) > 0
                    THEN [verdict |-> "deny", reason |-> "non_ignored"]
               ELSE [verdict |-> "allow", reason |-> "none"]

(***************************************************************************)
(* Specification SpecRm: check_rm_command on rm commands, in and out of a  *)
(* repository, with every combination of ignored paths.                    *)
(***************************************************************************)
MaxTargets == 2

RmPrefixes == {"rm", "/bin/rm", "  rm  -rf", "rm -f --", "rmdir", "ls"}

RmTargetWords == {"a.txt", "build/", "node_modules//"}

RECURSIVE WordLists(_, _)
WordLists(words, n) ==
    IF n = 0 THEN {""}
    ELSE WordLists(words, n - 1) \cup
         {l \o " " \o w : l \in WordLists(words, n - 1), w \in words}

RmCommands ==
    {pre \o l : pre \in RmPrefixes, l \in WordLists(RmTargetWords, MaxTargets)}
    \cup {"rm 'my file'", "rm \"unclosed", "echo x; rm a.txt", "cd build&&/bin/rm a.txt",
          "rm -- -a.txt", "echo rm a.txt", "rm_old a.txt"}

RmPaths == {"a.txt", "build", "node_modules", "my file"}

RmRepos == [kind : {"git"}, in_repo : BOOLEAN, ignored : SUBSET RmPaths]

InitRm ==
    /\ pc = "start"
    /\ request \in [op : {"check_rm_command"}, command : RmCommands]
    /\ repo \in RmRepos
    /\ flag_file = FALSE
    /\ result = NoResult
    /\ history = <<>>

CheckRmCommand ==
    /\ pc = "start"
    /\ request.op = "check_rm_command"
    /\ result' = check_rm_command(request.command, repo)
    /\ pc' = "done"
    /\ UNCHANGED <<request, repo, flag_file, history>>

NextRm == CheckRmCommand

SpecRm == InitRm /\ [][NextRm]_vars

RmDone ==
    /\ pc = "done"
    /\ request.op = "check_rm_command"
    /\ IsRmCommand(Normalize(request.command))

\* C5: inside a repository an rm command is allowed iff every extracted
\* non-flag target, trailing slashes stripped, is git-ignored (so also when
\* there is no target); outside a repository it is denied whatever the
\* targets are.
C5_RmAllowedIffAllIgnored ==
    RmDone =>
        LET targets == extract_rm_targets(Normalize(request.command))
        IN IF repo.in_repo
           THEN (result.verdict = "allow") <=>
                    (\A i \in 1..Len(targets) : RStripSlash(targets[i]) \in repo.ignored)
           ELSE result.verdict = "deny"

C5_Witness ==
    /\ RmDone
    /\ repo.in_repo
    /\ request.command = "rm a.txt build/"
    /\ repo.ignored = {"a.txt", "build"}
    /\ result.verdict = "allow"

(***************************************************************************)
(* command-safety: kubectl_check.py and terraform_check.py                 *)
(***************************************************************************)
KUBECTL_READ_ONLY_COMMANDS ==
    {"get", "describe", "logs", "top", "version", "cluster-info", "config",
     "explain", "api-resources", "api-versions", "diff"}

KUBECTL_DESTRUCTIVE_COMMANDS ==
    {"delete", "apply", "create", "replace", "patch", "edit", "scale", "rollout",
     "annotate", "label", "expose", "run", "exec", "cp"}

ASK_PERMISSION_COMMANDS == {"port-forward", "proxy"}

TERRAFORM_READ_ONLY_COMMANDS ==
    {"plan", "show", "validate", "version", "providers", "output", "state",
     "graph", "console", "fmt", "get", "init", "workspace"}

TERRAFORM_DESTRUCTIVE_COMMANDS ==
    {"apply", "destroy", "import", "taint", "untaint", "refresh"}

\* the loop over parts[1:] that looks for the subcommand: flags are skipped,
\* and so is the word after a flag of value_flags written without '='.
\* The result is <<subcommand>>, or <<>> when there is none.
RECURSIVE FindSubcommand(_, _, _, _)
FindSubcommand(parts, i, skip_next, value_flags) ==
    IF i > Len(parts) THEN <<>>
    ELSE IF skip_next THEN FindSubcommand(parts, i + 1, FALSE, value_flags)
    ELSE IF StartsWith(parts[i], "-")
         THEN FindSubcommand(parts, i + 1,
                             ~Contains(parts[i], "=") /\ parts[i] \in value_flags,
                             value_flags)
    ELSE <<parts[i]>>

KubectlValueFlags == {"--context", "--namespace", "-n", "--kubeconfig"}

TerraformValueFlags == {"-chdir", "-var", "-var-file"}

\* a plausible slip: the dry-run bypass is not looked at
check_kubectl_command_no_dry_run(command) ==
    IF ~StartsWith(Strip(command), "kubectl") THEN "allow"
    ELSE LET sp == ShlexSplit(command) IN
         IF ~sp.ok \/ Len(sp.parts) < 2 THEN "allow"
         ELSE LET sub == FindSubcommand(sp.parts, 2, FALSE, KubectlValueFlags) IN
              IF sub = <<>> \/ sub[1] \in KUBECTL_READ_ONLY_COMMANDS THEN "allow"
              ELSE IF sub[1] \in ASK_PERMISSION_COMMANDS THEN "ask"
              ELSE "block"

\* the decision of check_kubectl_command: "allow", "ask" or "block"
check_kubectl_command(command) ==
    IF ~StartsWith(Strip(command), "kubectl") THEN "allow"
    ELSE LET sp == ShlexSplit(command) IN
         IF ~sp.ok THEN "allow"                      \* except Exception
         ELSE IF Len(sp.parts) < 2 THEN "allow"
         ELSE LET sub == FindSubcommand(sp.parts, 2, FALSE, KubectlValueFlags) IN
              IF sub = <<>> THEN "allow"
              ELSE IF sub[1] \in KUBECTL_READ_ONLY_COMMANDS THEN "allow"
              ELSE IF sub[1] \in KUBECTL_DESTRUCTIVE_COMMANDS
                   THEN IF \E k \in 1..Len(sp.parts) : StartsWith(sp.parts[k], "--dry-run")
                        THEN "allow"
                        ELSE "block"
              ELSE IF sub[1] \in ASK_PERMISSION_COMMANDS THEN "ask"
              ELSE "block"

\* the decision of check_terraform_command: "allow" or "block"
check_terraform_command(command) ==
    LET stripped == Strip(command) IN
    IF ~(StartsWith(stripped, "terraform") \/ StartsWith(stripped, "tf ")) THEN "allow"
    ELSE LET sp == ShlexSplit(command) IN
         IF ~sp.ok THEN "allow"                      \* except Exception
         ELSE IF Len(sp.parts) < 2 THEN "allow"
         ELSE LET sub == FindSubcommand(sp.parts, 2, FALSE, TerraformValueFlags) IN
              IF sub = <<>> THEN "allow"
              ELSE IF sub[1] \in TERRAFORM_READ_ONLY_COMMANDS THEN "allow"
              ELSE IF sub[1] \in TERRAFORM_DESTRUCTIVE_COMMANDS THEN "block"
              ELSE "block"

(***************************************************************************)
(* Specification SpecVerb: the two checks on commands put together from a  *)
(* tool name, global options, a verb and arguments.                        *)
(***************************************************************************)
MaxVerbArgs == 1

KubectlGlobals == {"", " --context ops", " -n kube-system", " --namespace=dev",
                   " --kubeconfig /tmp/k"}

KubectlVerbs ==
    KUBECTL_READ_ONLY_COMMANDS \cup KUBECTL_DESTRUCTIVE_COMMANDS
    \cup ASK_PERMISSION_COMMANDS \cup {"drain", "cordon"}

VerbArgWords == {"pod/web", "--dry-run=client", "-f", "--force"}

TerraformGlobals == {"", " -chdir=/infra", " -chdir /infra"}

TerraformVerbs ==
    TERRAFORM_READ_ONLY_COMMANDS \cup TERRAFORM_DESTRUCTIVE_COMMANDS \cup {"login", "push"}

KubectlRequests ==
    {[op |-> "check_kubectl_command", command |-> "kubectl" \o g \o " " \o v \o a,
      verb |-> v, dry_run |-> Contains(a, "--dry-run")] :
        g \in KubectlGlobals, v \in KubectlVerbs, a \in WordLists(VerbArgWords, MaxVerbArgs)}

TerraformRequests ==
    {[op |-> "check_terraform_command", command |-> t \o g \o " " \o v \o a,
      verb |-> v, dry_run |-> Contains(a, "--dry-run")] :
        t \in {"terraform", " tf"}, g \in TerraformGlobals, v \in TerraformVerbs,
        a \in WordLists(VerbArgWords, MaxVerbArgs)}

\* commands without a verb, or that are not for the tool at all
VerblessRequests ==
    {[op |-> o, command |-> c, verb |-> "", dry_run |-> FALSE] :
        o \in {"check_kubectl_command", "check_terraform_command"},
        c \in {"", "kubectl", "kubectl --help", "terraform", "terraform -version",
               "ls -la", "echo kubectl delete pod", "tfenv apply"}}

InitVerb ==
    /\ pc = "start"
    /\ request \in KubectlRequests \cup TerraformRequests \cup VerblessRequests
    /\ repo = NoRepo
    /\ flag_file = FALSE
    /\ result = NoResult
    /\ history = <<>>

CheckKubectlCommand ==
    /\ pc = "start"
    /\ request.op = "check_kubectl_command"
    /\ result' = [verdict |-> check_kubectl_command(request.command)]
    /\ pc' = "done"
    /\ UNCHANGED <<request, repo, flag_file, history>>

CheckTerraformCommand ==
    /\ pc = "start"
    /\ request.op = "check_terraform_command"
    /\ result' = [verdict |-> check_terraform_command(request.command)]
    /\ pc' = "done"
    /\ UNCHANGED <<request, repo, flag_file, history>>

NextVerb == CheckKubectlCommand \/ CheckTerraformCommand

SpecVerb == InitVerb /\ [][NextVerb]_vars

\* C6: both checks classify a command by its verb: a read-only verb gives
\* Allow; a destructive verb gives Deny ("block"), except that kubectl with a
\* --dry-run flag gives Allow, while terraform has no such bypass; kubectl
\* port-forward and proxy give Ask; every other verb gives Deny.
C6_VerbClassification ==
    (pc = "done" /\ request.op \in {"check_kubectl_command", "check_terraform_command"}
                 /\ request.verb # "")
    => IF request.op = "check_kubectl_command"
       THEN result.verdict =
              (IF request.verb \in KUBECTL_READ_ONLY_COMMANDS THEN "allow"
               ELSE IF request.verb \in KUBECTL_DESTRUCTIVE_COMMANDS
                    THEN (IF request.dry_run THEN "allow" ELSE "block")
               ELSE IF request.verb \in {"port-forward", "proxy"} THEN "ask"
               ELSE "block")
       ELSE result.verdict =
              (IF request.verb \in TERRAFORM_READ_ONLY_COMMANDS THEN "allow" ELSE "block")

C6_Witness ==
    /\ pc = "done"
    /\ request.command = "kubectl --context ops delete --dry-run=client"
    /\ result.verdict = "allow"

(***************************************************************************)
(* env-protection: env_read_check.py and env_grep_check.py                 *)
(* A JSON value is [t |-> its type, v |-> its text]; only t = "str" is a   *)
(* Python str.                                                             *)
(***************************************************************************)
SAFE_SUFFIXES == {".example", ".template", ".sample", ".dist"}

ENV_GLOB_PATTERNS == {".env*", "*.env", ".env.*"}

Str(v) == [t |-> "str", v |-> v]

\* a plausible slip: the basename is compared without lower()
check_env_read_case_sensitive(file_path) ==
    IF file_path = "" THEN "allow"
    ELSE LET basename == Basename(file_path) IN
         IF ~StartsWith(basename, ".env") THEN "allow"
         ELSE IF basename = ".env" THEN "deny"
         ELSE IF StartsWith(basename, ".env.")
              THEN IF SubSeq(basename, 5, Len(basename)) \in SAFE_SUFFIXES
                   THEN "allow" ELSE "deny"
         ELSE "allow"

\* should_block of check_env_read, as a verdict
check_env_read(file_path) ==
    IF file_path = "" THEN "allow"
    ELSE LET basename == Lower(Basename(file_path)) IN
         IF ~StartsWith(basename, ".env") THEN "allow"
         ELSE IF basename = ".env" THEN "deny"
         ELSE IF StartsWith(basename, ".env.")
              THEN IF SubSeq(basename, 5, Len(basename)) \in SAFE_SUFFIXES
                   THEN "allow" ELSE "deny"
         ELSE "allow"

is_env_file(name) ==
    LET basename == Lower(name) IN
    IF ~StartsWith(basename, ".env") THEN FALSE
    ELSE IF basename = ".env" THEN TRUE
    ELSE IF StartsWith(basename, ".env.")
         THEN SubSeq(basename, 5, Len(basename)) \notin SAFE_SUFFIXES
    ELSE FALSE

\* while stripped.startswith('**/'): stripped = stripped[3:]
RECURSIVE StripRecursivePrefix(_)
StripRecursivePrefix(p) ==
    IF StartsWith(p, "**/") THEN StripRecursivePrefix(SubSeq(p, 4, Len(p))) ELSE p

HasWildcard(name) == Contains(name, "*") \/ Contains(name, "?") \/ Contains(name, "[")

\* a plausible slip: the recursive prefix is not stripped before the re-check
glob_targets_env_no_prefix_strip(glob_pattern) ==
    LET pattern == Lower(Strip(glob_pattern))
        basename == Basename(pattern)
    IN \/ pattern \in ENV_GLOB_PATTERNS
       \/ is_env_file(basename)
       \/ (StartsWith(basename, ".env") /\ HasWildcard(basename))

glob_targets_env(glob_pattern) ==
    LET pattern == Lower(Strip(glob_pattern))
        stripped == StripRecursivePrefix(pattern)
        basename == Basename(pattern)
    IN \/ pattern \in ENV_GLOB_PATTERNS
       \/ (stripped # pattern /\ (\/ stripped \in ENV_GLOB_PATTERNS
                                  \/ is_env_file(Basename(stripped))))
       \/ is_env_file(basename)
       \/ (StartsWith(basename, ".env") /\ HasWildcard(basename))

(***************************************************************************)
(* env-protection: env_bash_check.py                                       *)
(***************************************************************************)
CONTENT_READING_COMMANDS ==
    {"cat", "less", "more", "head", "tail", "grep", "egrep", "fgrep", "rg", "ag", "ack",
     "vim", "vi", "nvim", "nano", "emacs", "code", "subl", "bat", "sed", "awk", "perl",
     "python", "ruby", "node", "source", "xargs", "tee", "sort", "uniq", "cut", "paste",
     "diff", "wc"}

SAFE_COMMANDS ==
    {"ls", "mv", "cp", "rm", "touch", "chmod", "chown", "stat", "file", "mkdir", "git",
     "echo", "printf"}

\* [/\s"'] of ENV_FILE_PATTERN
EnvBoundaryChars == {"/", " ", "\t", "\n", "\"", "'"}

\* (?:[/\s"']|$) at position q of the lower-cased text l
EnvEnd(l, q) == q > Len(l) \/ Char(l, q) \in EnvBoundaryChars

\* [a-zA-Z0-9_-] on lower-cased text
EnvNameChar(c) == Len(c) = 1 /\ Contains(LowerLetters \o "0123456789_-", c)

\* (?!example|template|sample|dist) at position q
SafeSuffixAhead(l, q) == \E w \in {"example", "template", "sample", "dist"} : MatchAt(l, q, w)

\* ENV_FILE_PATTERN matches with its .env at position p of the lower-cased
\* text l: without the optional suffix, or with a suffix of name characters
\* that does not begin with a safe word and runs up to a boundary
EnvFileAt(l, p) ==
    /\ p = 1 \/ Char(l, p - 1) \in EnvBoundaryChars
    /\ MatchAt(l, p, ".env")
    /\ \/ EnvEnd(l, p + 4)
       \/ /\ Char(l, p + 4) = "."
          /\ ~SafeSuffixAhead(l, p + 5)
          /\ \E q \in (p + 6)..(Len(l) + 1) :
                /\ EnvEnd(l, q)
                /\ \A k \in (p + 5)..(q - 1) : EnvNameChar(Char(l, k))

EnvFileIn(l) == \E p \in 1..Len(l) : EnvFileAt(l, p)

\* ENV_FILE_PATTERN.search(text) is not None (re.IGNORECASE)
EnvFileMentioned(text) == EnvFileIn(Lower(text))

\* group 1 of FIRST_COMMAND_PATTERN ^\s*(?:sudo\s+)?(\S+) for the words of
\* the text, "" when there is no match
FirstCommand(words) ==
    IF Len(words) = 0 THEN ""
    ELSE IF words[1] = "sudo" /\ Len(words) >= 2 THEN words[2]
    ELSE words[1]

\* text.split('|') from position i on
RECURSIVE SplitPipes(_, _)
SplitPipesAt(s, i, j) ==
    IF j > Len(s) THEN <<SubSeq(s, i, Len(s))>>
    ELSE <<SubSeq(s, i, j - 1)>> \o SplitPipes(s, j + 1)

SplitPipes(s, i) == SplitPipesAt(s, i, FirstFrom(LAMBDA k : Char(s, k) = "|", i, Len(s)))

EnvBashAllow == [verdict |-> "allow", reason |-> "none"]

EnvBashDeny(why) == [verdict |-> "deny", reason |-> why]

\* the branch for commands that start with `git `
EnvBashGit(command) ==
    IF Contains(command, "-m ") \/ Contains(command, "--message") THEN EnvBashAllow
    ELSE IF \E c \in {"git add", "git rm", "git mv", "git status", "git diff"} :
                Contains(command, c)
         THEN EnvBashAllow
    ELSE IF \E c \in {"git show", "git cat-file"} : Contains(command, c)
         THEN EnvBashDeny("exposes")
    ELSE EnvBashAllow

\* the loop over the pipe parts: some part begins with a content-reading
\* command and mentions an env file
PipePartExposes(parts) ==
    \E i \in 1..Len(parts) :
        /\ Strip(parts[i]) # ""
        /\ Lower(FirstCommand(Split(Strip(parts[i])))) \in CONTENT_READING_COMMANDS
        /\ EnvFileMentioned(Strip(parts[i]))

\* a plausible slip: the safe leading command is not looked at
EnvBashFirst_no_safe_commands(command, first_cmd) ==
    IF first_cmd = "." THEN EnvBashDeny("sourcing")
    ELSE IF first_cmd \in CONTENT_READING_COMMANDS THEN EnvBashDeny("exposes")
    ELSE IF PipePartExposes(SplitPipes(command, 1)) THEN EnvBashDeny("exposes")
    ELSE EnvBashAllow

\* check_env_bash from the leading command on; first_cmd is "" when
\* FIRST_COMMAND_PATTERN does not match
EnvBashFirst(command, first_cmd) ==
    IF first_cmd # "" /\ first_cmd \in SAFE_COMMANDS THEN EnvBashAllow
    ELSE IF first_cmd = "." THEN EnvBashDeny("sourcing")
    ELSE IF first_cmd \in CONTENT_READING_COMMANDS THEN EnvBashDeny("exposes")
    ELSE IF PipePartExposes(SplitPipes(command, 1)) THEN EnvBashDeny("exposes")
    ELSE EnvBashAllow

\* (should_block, reason) of check_env_bash, as a verdict and the name of
\* the reason
check_env_bash(command) ==
    IF command = "" THEN EnvBashAllow
    ELSE IF ~EnvFileMentioned(command) THEN EnvBashAllow
    ELSE IF StartsWith(Strip(command), "git ") THEN EnvBashGit(command)
    ELSE EnvBashFirst(command, Lower(FirstCommand(Split(command))))

\* should_block of check_env_grep, as a verdict; path and glob_pattern are
\* JSON values
check_env_grep(path, glob_pattern) ==
    LET p == IF path.t = "str" THEN path.v ELSE ""
        g == IF glob_pattern.t = "str" THEN glob_pattern.v ELSE ""
    IN IF p # "" /\ Basename(p) # "" /\ is_env_file(Basename(p)) THEN "deny"
       ELSE IF g # "" /\ glob_targets_env(g) THEN "deny"
       ELSE "allow"

(***************************************************************************)
(* Specification SpecEnv: the Read and Grep variants on paths and globs    *)
(* put together from directories, recursive prefixes and file names.       *)
(***************************************************************************)
MaxPrefixes == 2

EnvDirs == {"", "/home/user/project/", "config/", ".env/", "my.env.d/"}

EnvNames ==
    {".env", ".ENV", ".env.local", ".env.production", ".Env.Local", ".env.example",
     ".env.template", ".env.sample", ".env.dist", ".ENV.Example", ".env.example.bak",
     ".env.", ".envrc", ".environment", "env", "my.env", "environment.py", "README.md", ""}

ReadRequests ==
    {[op |-> "check_env_read", file_path |-> d \o n, dir |-> d, name |-> n] :
        d \in EnvDirs, n \in EnvNames}

RECURSIVE RecursivePrefixes(_)
RecursivePrefixes(n) ==
    IF n = 0 THEN {""} ELSE {""} \cup {"**/" \o p : p \in RecursivePrefixes(n - 1)}

\* what follows the recursive prefixes of a glob
GlobBodies ==
    {".env", ".env*", "*.env", ".env.*", ".env.local", ".ENV.Production", ".env.example",
     ".env?ocal", ".env*.*", "*.py", "src/.env", "src/*.env", " .env", ".env ", "*", ""}

NonStrings == {[t |-> "null", v |-> ""], [t |-> "int", v |-> "123"],
               [t |-> "list", v |-> ".env"]}

GrepPaths ==
    {Str(v) : v \in {"", ".env", "src/", "app/.env.local", "app/.env.example", "src/main.py"}}
    \cup NonStrings

GrepRequests ==
    {[op |-> "check_env_grep", path |-> p, glob |-> Str(pre \o b), prefix |-> pre, body |-> b] :
        p \in GrepPaths, pre \in RecursivePrefixes(MaxPrefixes), b \in GlobBodies}
    \cup {[op |-> "check_env_grep", path |-> p, glob |-> g, prefix |-> "", body |-> ""] :
            p \in GrepPaths, g \in NonStrings}

InitEnv ==
    /\ pc = "start"
    /\ request \in ReadRequests \cup GrepRequests
    /\ repo = NoRepo
    /\ flag_file = FALSE
    /\ result = NoResult
    /\ history = <<>>

CheckEnvRead ==
    /\ pc = "start"
    /\ request.op = "check_env_read"
    /\ result' = [verdict |-> check_env_read(request.file_path)]
    /\ pc' = "done"
    /\ UNCHANGED <<request, repo, flag_file, history>>

CheckEnvGrep ==
    /\ pc = "start"
    /\ request.op = "check_env_grep"
    /\ result' = [verdict |-> check_env_grep(request.path, request.glob)]
    /\ pc' = "done"
    /\ UNCHANGED <<request, repo, flag_file, history>>

NextEnv == CheckEnvRead \/ CheckEnvGrep

SpecEnv == InitEnv /\ [][NextEnv]_vars

\* the name is a sensitive file name: exactly .env, or .env. followed by
\* something that does not make one of the safe suffixes
SensitiveName(name) ==
    LET n == Lower(name) IN
    \/ n = ".env"
    \/ /\ StartsWith(n, ".env.")
       /\ \A suffix \in {".example", ".template", ".sample", ".dist"} : n # ".env" \o suffix

\* C7: check_env_read denies a path iff its lower-cased basename is exactly
\* .env, or starts with .env. with the part after .env not one of .example,
\* .template, .sample, .dist; every other path is allowed, whatever
\* directory precedes the basename.
C7_ReadDeniesIffSensitive ==
    (pc = "done" /\ request.op = "check_env_read")
    => ((result.verdict = "deny") <=> SensitiveName(request.name))

C7_Witness ==
    /\ pc = "done"
    /\ request.op = "check_env_read"
    /\ request.file_path = "/home/user/project/.Env.Local"
    /\ result.verdict = "deny"

Absent == [t |-> "null", v |-> ""]

GrepDone == pc = "done" /\ request.op = "check_env_grep"

\* each parameter is judged on its own, a non-string one as absent
GrepJudgedIndependently ==
    /\ result.verdict \in {"allow", "deny"}
    /\ (result.verdict = "deny") <=>
          \/ (request.path.t = "str" /\ SensitiveName(Basename(request.path.v)))
          \/ check_env_grep(Absent, request.glob) = "deny"
    /\ request.glob.t # "str" => check_env_grep(Absent, request.glob) = "allow"

\* the glob gets the verdict of what follows its **/ prefixes
GrepPrefixIgnored ==
    request.glob.t = "str" =>
        check_env_grep(Absent, request.glob) = check_env_grep(Absent, Str(request.body))

\* C8 as stated: check_env_grep denies iff the path's basename is sensitive
\* or the glob targets sensitive files, each parameter judged independently;
\* a glob with leading **/ prefixes gets the verdict of the glob without
\* them; a non-string path or glob is treated as absent and never raises.
C8_GrepAsStated == GrepDone => (GrepJudgedIndependently /\ GrepPrefixIgnored)

\* C8 amended: as stated, the prefix rule being claimed only for a glob
\* whose remainder after the **/ prefixes does not begin with whitespace
\* (strip() trims the whole pattern, not the remainder).
C8_GrepAmended ==
    GrepDone =>
        /\ GrepJudgedIndependently
        /\ (request.body = LStrip(request.body) => GrepPrefixIgnored)

C8_Witness ==
    /\ GrepDone
    /\ request.path = Str("src/")
    /\ request.glob = Str("**/**/*.env")
    /\ result.verdict = "deny"

(***************************************************************************)
(* git-hooks: git_branch_workflow.py                                       *)
(* repo.branch[d] is what `git rev-parse --abbrev-ref HEAD` prints in      *)
(* directory d ("" is the directory of the hook process), or None when the *)
(* query fails.  A Python None path is the empty string: both are falsy in *)
(* `git_c_path or cwd`, and '' never reaches subprocess.                   *)
(***************************************************************************)
None == "<None>"

Home == "/home/u"

PROTECTED_BRANCHES == {"main", "master"}

STASH_STORE_SUBCOMMANDS == {"push", "save", ""}

STASH_RETRIEVE_SUBCOMMANDS == {"pop", "apply", "list", "drop", "clear", "show", "branch"}

IsUpper(c) == Len(c) = 1 /\ Contains(UpperLetters, c)

IsDigit(c) == Len(c) = 1 /\ Contains("0123456789", c)

\* JIRA_PATTERN.match(name): ^[A-Z]+-\d+
JiraMatch(name) ==
    \E k \in 1..Len(name) :
        /\ \A j \in 1..k : IsUpper(Char(name, j))
        /\ Char(name, k + 1) = "-"
        /\ IsDigit(Char(name, k + 2))

get_current_branch(r, cwd) ==
    IF cwd \in DOMAIN r.branch THEN r.branch[cwd] ELSE None

\* os.path.expanduser
ExpandUser(path) ==
    IF path = "~" THEN Home
    ELSE IF StartsWith(path, "~/") THEN Home \o SubSeq(path, 2, Len(path))
    ELSE path

\* s.split('=', 1)[1]
AfterEquals(s) ==
    LET i == CHOOSE k \in 1..Len(s) : Char(s, k) = "=" /\ \A j \in 1..(k - 1) : Char(s, j) # "="
    IN SubSeq(s, i + 1, Len(s))

\* s.replace("'", "'\"'\"'")
RECURSIVE EscapeQuotes(_)
EscapeQuotes(s) ==
    LET j == FirstFrom(LAMBDA k : Char(s, k) = "'", 1, Len(s))
    IN IF j > Len(s) THEN s
       ELSE SubSeq(s, 1, j - 1) \o "'\"'\"'" \o EscapeQuotes(SubSeq(s, j + 1, Len(s)))

ShellSafeChars == WordChars \o "@%+=:,./-"

\* shlex.quote
ShlexQuote(s) ==
    IF s = "" THEN "''"
    ELSE IF \A i \in 1..Len(s) : Contains(ShellSafeChars, Char(s, i)) THEN s
    ELSE "'" \o EscapeQuotes(s) \o "'"

\* shlex.join
RECURSIVE ShlexJoin(_)
ShlexJoin(parts) ==
    IF Len(parts) = 0 THEN ""
    ELSE IF Len(parts) = 1 THEN ShlexQuote(parts[1])
    ELSE ShlexQuote(parts[1]) \o " " \o ShlexJoin(Tail(parts))

\* the target of a cd among the words of a command, "" for None
CdTarget(sp) ==
    IF sp.ok /\ Len(sp.parts) >= 2 /\ sp.parts[1] = "cd"
    THEN ExpandUser(sp.parts[2]) ELSE ""

extract_cd_target(command) == CdTarget(ShlexSplit(command))

\* the while loop of normalize_git_command over parts[i..]; st carries
\* new_parts and the three paths (last one of each kind wins)
RECURSIVE NormalizeLoop(_, _, _)
NormalizeLoop(parts, i, st) ==
    IF i > Len(parts) THEN st
    ELSE LET p == parts[i] IN
         IF p = "-C" /\ i + 1 <= Len(parts)
         THEN NormalizeLoop(parts, i + 2, [st EXCEPT !.c_path = ExpandUser(parts[i + 1])])
         ELSE IF StartsWith(p, "-C") /\ Len(p) > 2
         THEN NormalizeLoop(parts, i + 1, [st EXCEPT !.c_path = ExpandUser(SubSeq(p, 3, Len(p)))])
         ELSE IF StartsWith(p, "--work-tree=")
         THEN NormalizeLoop(parts, i + 1, [st EXCEPT !.work_tree_path = ExpandUser(AfterEquals(p))])
         ELSE IF p = "--work-tree" /\ i + 1 <= Len(parts)
         THEN NormalizeLoop(parts, i + 2, [st EXCEPT !.work_tree_path = ExpandUser(parts[i + 1])])
         ELSE IF StartsWith(p, "--git-dir=")
         THEN NormalizeLoop(parts, i + 1, [st EXCEPT !.git_dir_path = ExpandUser(AfterEquals(p))])
         ELSE IF p = "--git-dir" /\ i + 1 <= Len(parts)
         THEN NormalizeLoop(parts, i + 2, [st EXCEPT !.git_dir_path = ExpandUser(parts[i + 1])])
         ELSE NormalizeLoop(parts, i + 1, [st EXCEPT !.new_parts = Append(@, p)])

\* what the loop leaves: shlex.join(new_parts) and git_c_path or
\* work_tree_path or git_dir_path
NormalizedResult(st) ==
    [cmd |-> ShlexJoin(st.new_parts),
     cwd |-> IF st.c_path # "" THEN st.c_path
             ELSE IF st.work_tree_path # "" THEN st.work_tree_path
             ELSE st.git_dir_path]

\* normalize_git_command once shlex.split has answered with sp
NormalizeParts(command, sp) ==
    IF ~sp.ok THEN [cmd |-> command, cwd |-> ""]
    ELSE IF Len(sp.parts) < 2 \/ sp.parts[1] # "git" THEN [cmd |-> command, cwd |-> ""]
    ELSE NormalizedResult(NormalizeLoop(sp.parts, 2,
             [new_parts |-> <<"git">>, c_path |-> "", work_tree_path |-> "",
              git_dir_path |-> ""]))

\* (normalized_command, cwd_path)
normalize_git_command(command) == NormalizeParts(command, ShlexSplit(command))

\* parts.index(x) + 1 as a 1-based position, 0 when x is not in parts
IndexOf(parts, x) ==
    IF \E i \in 1..Len(parts) : parts[i] = x
    THEN CHOOSE i \in 1..Len(parts) : parts[i] = x /\ \A j \in 1..(i - 1) : parts[j] # x
    ELSE 0

\* x is in parts and a word follows its first occurrence
HasWordAfter(parts, x) == IndexOf(parts, x) > 0 /\ IndexOf(parts, x) + 1 <= Len(parts)

\* the word after the first x in parts, "" when there is none
WordAfter(parts, x) == IF HasWordAfter(parts, x) THEN parts[IndexOf(parts, x) + 1] ELSE ""

\* extract_new_branch_name once shlex.split has answered with sp
NewBranchName(sp) ==
    IF ~sp.ok \/ Len(sp.parts) < 4 THEN ""
    ELSE IF sp.parts[1] = "git" /\ sp.parts[2] = "checkout" /\ HasWordAfter(sp.parts, "-b")
         THEN WordAfter(sp.parts, "-b")
    ELSE IF sp.parts[1] = "git" /\ sp.parts[2] = "switch"
         THEN IF HasWordAfter(sp.parts, "-c") THEN WordAfter(sp.parts, "-c")
              ELSE WordAfter(sp.parts, "--create")
    ELSE ""

\* the new branch name, "" for None
extract_new_branch_name(command) == NewBranchName(ShlexSplit(command))

\* parts[2] if len(parts) > 2 else ''
StashSubcommand(sp) == IF Len(sp.parts) > 2 THEN sp.parts[3] ELSE ""

\* a plausible slip: a flag after stash is not taken for a storing form
StashParts_flags_not_stored(sp) ==
    IF ~sp.ok THEN "next"
    ELSE IF StashSubcommand(sp) \in STASH_RETRIEVE_SUBCOMMANDS THEN "allow"
    ELSE IF StashSubcommand(sp) \in STASH_STORE_SUBCOMMANDS THEN "block"
    ELSE "next"

\* the stash branch once shlex.split has answered with sp
StashParts(sp) ==
    IF ~sp.ok THEN "next"                                     \* except: pass
    ELSE IF StashSubcommand(sp) \in STASH_RETRIEVE_SUBCOMMANDS THEN "allow"
    ELSE IF StashSubcommand(sp) \in STASH_STORE_SUBCOMMANDS
            \/ StartsWith(StashSubcommand(sp), "-")
         THEN "block"
    ELSE "next"

\* the stash branch of _check_single_subcommand: "allow", "block", or "next"
\* when the code falls through to the new-branch check
StashDecision(subcmd) == StashParts(ShlexSplit(subcmd))

\* the commit branch of _check_single_subcommand on the branches in protected
CommitDecision(branch, protected) ==
    IF branch = None THEN [decision |-> "allow", reason |-> "none"]
    ELSE IF branch \in protected THEN [decision |-> "block", reason |-> "protected_branch"]
    ELSE IF ~JiraMatch(branch) THEN [decision |-> "ask", reason |-> "branch_missing_prefix"]
    ELSE [decision |-> "ask", reason |-> "commit_approval"]

\* the branches of _check_single_subcommand in their order
SubcommandDecision(normalized, commit, stash, new_branch) ==
    IF StartsWith(normalized, "git commit") THEN commit
    ELSE IF StartsWith(normalized, "git stash") /\ stash = "allow"
         THEN [decision |-> "allow", reason |-> "none"]
    ELSE IF StartsWith(normalized, "git stash") /\ stash = "block"
         THEN [decision |-> "block", reason |-> "stash"]
    ELSE IF new_branch # "" /\ ~JiraMatch(new_branch)
         THEN [decision |-> "ask", reason |-> "new_branch_missing_prefix"]
    ELSE [decision |-> "allow", reason |-> "none"]

\* effective_cwd = git_c_path or cwd
EffectiveCwd(n, cwd) == IF n.cwd # "" THEN n.cwd ELSE cwd

\* _check_single_subcommand once normalize_git_command has answered with n
CheckNormalized(r, subcmd, cwd, n, protected) ==
    SubcommandDecision(Lower(n.cmd),
                       CommitDecision(get_current_branch(r, EffectiveCwd(n, cwd)), protected),
                       StashDecision(subcmd),
                       extract_new_branch_name(subcmd))

\* a plausible slip: only main is protected
check_single_subcommand_main_only(r, subcmd, cwd) ==
    CheckNormalized(r, subcmd, cwd, normalize_git_command(Strip(subcmd)), {"main"})

\* (decision, reason); the reason is the name of the message
check_single_subcommand(r, subcmd, cwd) ==
    CheckNormalized(r, subcmd, cwd, normalize_git_command(Strip(subcmd)), PROTECTED_BRANCHES)

\* the loop of check_git_branch_workflow: the decisions of the subcommands
\* that are not cd, each taken in the directory the cd before it reached
RECURSIVE WorkflowDecisions(_, _, _, _)
\* the subcommand at position i, target being its cd target
WorkflowStep(r, subcmds, i, current_cwd, target) ==
    IF target # "" THEN WorkflowDecisions(r, subcmds, i + 1, target)
    ELSE <<check_single_subcommand(r, subcmds[i], current_cwd)>>
         \o WorkflowDecisions(r, subcmds, i + 1, current_cwd)

WorkflowDecisions(r, subcmds, i, current_cwd) ==
    IF i > Len(subcmds) THEN <<>>
    ELSE WorkflowStep(r, subcmds, i, current_cwd, extract_cd_target(subcmds[i]))

\* the first element of seq whose decision is d, as a one-element sequence
RECURSIVE FirstWith(_, _)
FirstWith(seq, d) ==
    IF Len(seq) = 0 THEN <<>>
    ELSE IF seq[1].decision = d THEN <<seq[1]>>
    ELSE FirstWith(Tail(seq), d)

\* the loop returns at the first block; the first ask is remembered and
\* returned when no subcommand blocks
FirstBlockThenAsk(ds, allow) ==
    IF FirstWith(ds, "block") # <<>> THEN FirstWith(ds, "block")[1]
    ELSE IF FirstWith(ds, "ask") # <<>> THEN FirstWith(ds, "ask")[1]
    ELSE allow

check_git_branch_workflow(r, command) ==
    FirstBlockThenAsk(WorkflowDecisions(r, extract_subcommands(command), 1, ""),
                      [decision |-> "allow", reason |-> "none"])

(***************************************************************************)
(* git-hooks: git_add_block.py                                             *)
(* repo.status[f] is the first two characters `git status --porcelain f`   *)
(* prints ("" when it prints nothing), repo.dir_files[d] the files         *)
(* `git add --dry-run d/` lists, repo.git_ok whether git can be run.       *)
(***************************************************************************)
StatusOf(r, f) == IF f \in DOMAIN r.status THEN r.status[f] ELSE ""

DryRunFiles(r, d) == IF d \in DOMAIN r.dir_files THEN r.dir_files[d] ELSE <<>>

IsModifiedStatus(st) == st # "" /\ ~Contains(st, "?")

IsLetter(c) == Len(c) = 1 /\ (Contains(UpperLetters, c) \/ Contains(LowerLetters, c))

\* a plausible slip: the flag pattern without re.IGNORECASE and [Aa]
DangerousAddWord_capital_only(w) ==
    \/ /\ Len(w) >= 2
       /\ Char(w, 1) = "-"
       /\ \A i \in 2..Len(w) : IsLetter(Char(w, i))
       /\ \E i \in 2..Len(w) : Char(w, i) = "A"
    \/ w = "--all"
    \/ w = "."
    \/ /\ StartsWith(w, "../")
       /\ \A i \in 4..Len(w) : Char(w, i) \in {".", "/"} \/ IsWordChar(Char(w, i))

\* -[a-zA-Z]*[Aa][a-zA-Z]*(\s|$) | --all(\s|$) | \.(\s|$) | \.\./[\.\w/]*(\s|$)
\* on one word of the normalized command (re.IGNORECASE)
DangerousAddWord(w) ==
    \/ /\ Len(w) >= 2
       /\ Char(w, 1) = "-"
       /\ \A i \in 2..Len(w) : IsLetter(Char(w, i))
       /\ \E i \in 2..Len(w) : Lower(Char(w, i)) = "a"
    \/ Lower(w) = "--all"
    \/ w = "."
    \/ /\ StartsWith(w, "../")
       /\ \A i \in 4..Len(w) : Char(w, i) \in {".", "/"} \/ IsWordChar(Char(w, i))

\* dangerous_pattern: ^git\s+add\s+(?:.*\s+)?(...), words being the words of
\* the normalized command
DangerousAdd(words) ==
    /\ Len(words) >= 3
    /\ Lower(words[1]) = "git"
    /\ Lower(words[2]) = "add"
    /\ \E i \in 3..Len(words) : DangerousAddWord(words[i])

\* directory_pattern: ^git\s+add\s+(?!-)[^\s]+/$
DirectoryAdd(words) ==
    /\ Len(words) = 3
    /\ words[1] = "git"
    /\ words[2] = "add"
    /\ Len(words[3]) >= 2
    /\ ~StartsWith(words[3], "-")
    /\ EndsWith(words[3], "/")

\* re.search(r'-[a-zA-Z]*x[a-zA-Z]*', s) for a lower-case letter x
HasShortFlag(s, x) ==
    \E i \in 1..Len(s) : \E j \in (i + 1)..Len(s) :
        /\ Char(s, i) = "-"
        /\ Char(s, j) = x
        /\ \A k \in (i + 1)..j : IsLetter(Char(s, k))

\* ^git\s+commit\s+
CommitWithArgs(words) == Len(words) >= 3 /\ words[1] = "git" /\ words[2] = "commit"

\* the files among parts[2:] that are not flags and that git status reports
\* as modified
ModifiedAmong(r, parts) ==
    IF Len(parts) < 3 \/ parts[1] # "git" \/ parts[2] # "add" THEN <<>>
    ELSE SelectSeq(SubSeq(parts, 3, Len(parts)),
                   LAMBDA f : /\ ~StartsWith(f, "-")
                              /\ r.git_ok
                              /\ IsModifiedStatus(StatusOf(r, f)))

get_modified_files_being_staged(r, command) == ModifiedAmong(r, Split(command))

\* the number of names a message lists and the number it only counts
Shown(files, limit) ==
    [listed |-> IF Len(files) > limit THEN limit ELSE Len(files),
     more |-> IF Len(files) > limit THEN Len(files) - limit ELSE 0]

AddAllow == [decision |-> "allow", reason |-> "none", files |-> <<>>, more |-> 0]

AddBlock(why) == [decision |-> "block", reason |-> why, files |-> <<>>, more |-> 0]

\* the message names modified_files[:5] and counts the rest
AddAsk(why, files) ==
    [decision |-> "ask", reason |-> why,
     files |-> SubSeq(files, 1, Shown(files, 5).listed), more |-> Shown(files, 5).more]

\* the directory branch once git status has answered for the files of the
\* dry run
DirectoryModified(files, modified) ==
    IF Len(files) = 0 THEN AddAllow
    ELSE IF Len(modified) = 0 THEN AddAllow
    ELSE AddAsk("staging_directory", modified)

\* the files of the sequence that git status reports as modified
ModifiedOf(r, files) == SelectSeq(files, LAMBDA f : IsModifiedStatus(StatusOf(r, f)))

\* the directory branch: the staged files of the directory that are modified
DirectoryDecision(r, dir_path) ==
    IF ~r.git_ok THEN AddAsk("verify_failed", <<>>)
    ELSE DirectoryModified(DryRunFiles(r, dir_path), ModifiedOf(r, DryRunFiles(r, dir_path)))

\* _check_single_git_add_command on the normalized command, words being its
\* words and modified the modified files it stages
AddDecision(r, normalized_cmd, words, modified) ==
    IF Contains(normalized_cmd, "--dry-run") \/ \E i \in 1..Len(words) : words[i] = "-n"
    THEN AddAllow
    ELSE IF Contains(normalized_cmd, "*") /\ StartsWith(normalized_cmd, "git add")
    THEN AddBlock("wildcard")
    ELSE IF DangerousAdd(words)
    THEN AddBlock("dangerous_add")
    ELSE IF DirectoryAdd(words) /\ RStripSlash(words[3]) # ""
    THEN DirectoryDecision(r, RStripSlash(words[3]))
    ELSE IF CommitWithArgs(words) /\ HasShortFlag(normalized_cmd, "a")
            /\ ~HasShortFlag(normalized_cmd, "m")
    THEN AddBlock("commit_a_without_message")
    ELSE IF StartsWith(normalized_cmd, "git add") /\ Len(modified) > 0
    THEN AddAsk("staging_modified", modified)
    ELSE AddAllow

\* normalized_cmd = ' '.join(command.strip().split())
AddNormalized(r, normalized_cmd) ==
    AddDecision(r, normalized_cmd, Split(normalized_cmd),
                get_modified_files_being_staged(r, normalized_cmd))

check_single_git_add_command(r, command) == AddNormalized(r, Normalize(command))

RECURSIVE AddDecisions(_, _)
AddDecisions(r, subcmds) ==
    IF Len(subcmds) = 0 THEN <<>>
    ELSE <<check_single_git_add_command(r, subcmds[1])>> \o AddDecisions(r, Tail(subcmds))

\* the first decision that is not an allow
FirstNotAllow(rest, allow) == IF Len(rest) > 0 THEN rest[1] ELSE allow

\* a plausible slip: the directory is added without --dry-run, which stages
\* its files so that a later dry run lists none
RepoAfterDryRun_staging(r, dir_path) ==
    IF dir_path \in DOMAIN r.dir_files
    THEN [r EXCEPT !.dir_files = [d \in DOMAIN r.dir_files |->
                                     IF d = dir_path THEN <<>> ELSE r.dir_files[d]]]
    ELSE r

\* what `git add --dry-run <dir_path>` leaves of the repository: the dry run
\* lists the files and writes nothing
RepoAfterDryRun(r, dir_path) == r

\* the directory branch of _check_single_git_add_command is reached
ReachesDryRun(r, normalized_cmd, words) ==
    /\ ~Contains(normalized_cmd, "--dry-run")
    /\ ~\E i \in 1..Len(words) : words[i] = "-n"
    /\ ~(Contains(normalized_cmd, "*") /\ StartsWith(normalized_cmd, "git add"))
    /\ ~DangerousAdd(words)
    /\ DirectoryAdd(words)
    /\ RStripSlash(words[3]) # ""
    /\ r.git_ok

\* the repository after _check_single_git_add_command: its only subprocess
\* calls are the dry run and git status
RepoAfterSingleAdd(r, normalized_cmd, words) ==
    IF ReachesDryRun(r, normalized_cmd, words)
    THEN RepoAfterDryRun(r, RStripSlash(words[3]))
    ELSE r

\* the repository after the loop of check_git_add_command, which ends at the
\* first subcommand that blocks
RECURSIVE RepoAfterAdd(_, _)
RepoAfterAdd(r, subcmds) ==
    IF Len(subcmds) = 0 THEN r
    ELSE IF check_single_git_add_command(r, subcmds[1]).decision = "block" THEN r
    ELSE RepoAfterAdd(RepoAfterSingleAdd(r, Normalize(subcmds[1]),
                                         Split(Normalize(subcmds[1]))),
                      Tail(subcmds))

\* a plausible slip: the first subcommand that does not allow decides
check_git_add_command_first_wins(r, command) ==
    FirstNotAllow(SelectSeq(AddDecisions(r, extract_subcommands(command)),
                            LAMBDA x : x.decision # "allow"),
                  AddAllow)

check_git_add_command(r, command) ==
    FirstBlockThenAsk(AddDecisions(r, extract_subcommands(command)), AddAllow)

(***************************************************************************)
(* git-hooks: git_checkout_safety.py                                       *)
(* `git status --porcelain` prints one line for every named file whose     *)
(* status is not empty and repo.other_changes lines for other files.       *)
(***************************************************************************)
RECURSIVE SkipSpaces(_, _)
SkipSpaces(s, i) == IF IsSpace(Char(s, i)) THEN SkipSpaces(s, i + 1) ELSE i

\* \b between positions i - 1 and i
WordBoundary(s, i) == IsWordChar(Char(s, i - 1)) # IsWordChar(Char(s, i))

\* \bgit\s+checkout\s matches at i: the position of the whitespace character
\* after "checkout", 0 when there is no match at i
CheckoutAt(s, i) ==
    IF /\ WordBoundary(s, i)
       /\ MatchAt(s, i, "git")
       /\ IsSpace(Char(s, i + 3))
       /\ MatchAt(s, SkipSpaces(s, i + 3), "checkout")
       /\ IsSpace(Char(s, SkipSpaces(s, i + 3) + 8))
    THEN SkipSpaces(s, i + 3) + 8
    ELSE 0

CheckoutMatches(s) == {CheckoutAt(s, i) : i \in 1..Len(s)} \ {0}

\* \bgit\s+checkout\s+(-f|--force)\b
ForceCheckout(s) ==
    \E w \in CheckoutMatches(s) :
        LET k == SkipSpaces(s, w) IN
        \/ MatchAt(s, k, "-f") /\ WordBoundary(s, k + 2)
        \/ MatchAt(s, k, "--force") /\ WordBoundary(s, k + 7)

\* \bgit\s+checkout\s+\.
DotCheckout(s) == \E w \in CheckoutMatches(s) : Char(s, SkipSpaces(s, w)) = "."

\* \bgit\s+checkout\s+.*\s+--\s+  : the whitespace before -- is not the one
\* character the first \s+ needs
DashDashCheckout(s) ==
    \E w \in CheckoutMatches(s) : \E d \in (w + 2)..Len(s) :
        IsSpace(Char(s, d - 1)) /\ MatchAt(s, d, "--") /\ IsSpace(Char(s, d + 2))

\* \bgit\s+checkout\s+.*\s+--\s+\.
DashDashDotCheckout(s) ==
    \E w \in CheckoutMatches(s) : \E d \in (w + 2)..Len(s) :
        /\ IsSpace(Char(s, d - 1)) /\ MatchAt(s, d, "--") /\ IsSpace(Char(s, d + 2))
        /\ Char(s, SkipSpaces(s, d + 2)) = "."

num_changes(r) == Cardinality({f \in DOMAIN r.status : r.status[f] # ""}) + r.other_changes

CheckoutAllow == [decision |-> "allow", reason |-> "none", listed |-> 0, more |-> 0]

CheckoutBlock(why, n) ==
    [decision |-> "block", reason |-> why,
     listed |-> IF n > 10 THEN 10 ELSE n, more |-> IF n > 10 THEN n - 10 ELSE 0]

check_single_git_checkout_command(r, command) ==
    IF ~StartsWith(Strip(command), "git checkout") THEN CheckoutAllow
    ELSE IF Contains(command, "-b") \/ Contains(command, "--help") \/ Contains(command, "-h")
    THEN CheckoutAllow
    ELSE IF ForceCheckout(command) THEN CheckoutBlock("force", 0)
    ELSE IF DotCheckout(command) THEN CheckoutBlock("checkout_dot", 0)
    ELSE IF DashDashDotCheckout(command) THEN CheckoutBlock("discard_directory", 0)
    ELSE IF DashDashCheckout(command) THEN CheckoutBlock("overwrite_file", 0)
    ELSE IF ~r.git_ok THEN CheckoutBlock("status_failed", 0)
    ELSE IF num_changes(r) > 0 THEN CheckoutBlock("uncommitted_changes", num_changes(r))
    ELSE CheckoutAllow

RECURSIVE CheckoutDecisions(_, _)
CheckoutDecisions(r, subcmds) ==
    IF Len(subcmds) = 0 THEN <<>>
    ELSE <<check_single_git_checkout_command(r, subcmds[1])>>
         \o CheckoutDecisions(r, Tail(subcmds))

\* the first block of the decisions, else allow
FirstBlock(ds, allow) ==
    IF FirstWith(ds, "block") # <<>> THEN FirstWith(ds, "block")[1] ELSE allow

\* the first subcommand that blocks decides
check_git_checkout_command(r, command) ==
    FirstBlock(CheckoutDecisions(r, extract_subcommands(command)), CheckoutAllow)

(***************************************************************************)
(* git-hooks: command_utils.py, alias expansion.  repo.aliases is the      *)
(* table _load_alias_cache returns (empty when the shell cannot be asked). *)
(***************************************************************************)
AliasSkipTokens == {"git", "rm", "cat", "less", "nano", "vim"}

\* command.split(None, 1): the rest after the first token, words being the
\* words of the command
RestAfterFirstToken(command, words) ==
    IF Len(words) < 2 THEN ""
    ELSE LStrip(SubSeq(LStrip(command), Len(words[1]) + 1, Len(LStrip(command))))

\* expand_alias, words being the words of the command
ExpandFirstToken(r, command, words) ==
    IF Len(words) = 0 THEN command
    ELSE IF words[1] \in AliasSkipTokens \/ Contains(words[1], "/") THEN command
    ELSE IF words[1] \in DOMAIN r.aliases
         THEN Strip(r.aliases[words[1]] \o " " \o RestAfterFirstToken(command, words))
    ELSE command

expand_alias(r, command) == ExpandFirstToken(r, command, Split(command))

\* a plausible slip: only the first subcommand of the chain is expanded
ExpandPiece_first_only(r, piece, first, last) ==
    IF Strip(piece) = "" THEN piece
    ELSE (IF first THEN "" ELSE SubSeq(piece, 1, Len(piece) - Len(LStrip(piece))))
         \o (IF first THEN expand_alias(r, Strip(piece)) ELSE Strip(piece))
         \o (IF last THEN "" ELSE SubSeq(piece, Len(RStrip(piece)) + 1, Len(piece)))

\* one text piece of re.split with the whitespace the operators around it
\* captured: first and last say whether an operator precedes and follows
ExpandPiece(r, piece, first, last) ==
    IF Strip(piece) = "" THEN piece
    ELSE (IF first THEN "" ELSE SubSeq(piece, 1, Len(piece) - Len(LStrip(piece))))
         \o expand_alias(r, Strip(piece))
         \o (IF last THEN "" ELSE SubSeq(piece, Len(RStrip(piece)) + 1, Len(piece)))

\* s from position i on, piece by piece, the operators kept as they are
RECURSIVE ExpandScan(_, _, _)
\* j is the position of the first operator from i on
ExpandUpTo(r, s, i, j) ==
    IF j > Len(s) THEN ExpandPiece(r, SubSeq(s, i, Len(s)), i = 1, TRUE)
    ELSE ExpandPiece(r, SubSeq(s, i, j - 1), i = 1, FALSE)
         \o SubSeq(s, j, j + OperatorAt(s, j) - 1)
         \o ExpandScan(r, s, j + OperatorAt(s, j))

ExpandScan(r, s, i) ==
    ExpandUpTo(r, s, i, FirstFrom(LAMBDA k : OperatorAt(s, k) > 0, i, Len(s)))

expand_command_aliases(r, command) ==
    IF command = "" THEN command ELSE ExpandScan(r, command, 1)

(***************************************************************************)
(* git-hooks: worktree_suggestion.py.  repo.in_worktree is what            *)
(* is_already_in_worktree finds, repo.repo_root what get_repo_root returns *)
(* ("" for None).                                                          *)
(***************************************************************************)
SkipBranchPrefixes == {"hotfix/", "fix/", "docs/", "doc/", "chore/", "bump", "release", "version"}

is_feature_branch(branch_name) ==
    ~\E p \in SkipBranchPrefixes : StartsWith(Lower(branch_name), p)

\* extract_branch_from_command once shlex.split has answered with sp
BranchFromParts(sp) ==
    IF ~sp.ok THEN ""
    ELSE IF IndexOf(sp.parts, "checkout") > 0 /\ WordAfter(sp.parts, "-b") # ""
         THEN WordAfter(sp.parts, "-b")
    ELSE IF IndexOf(sp.parts, "switch") > 0 /\ WordAfter(sp.parts, "-c") # ""
         THEN WordAfter(sp.parts, "-c")
    ELSE IF IndexOf(sp.parts, "switch") > 0 THEN WordAfter(sp.parts, "--create")
    ELSE ""

extract_branch_from_command(command) == BranchFromParts(ShlexSplit(command))

\* os.path.join of two components
PathJoin(a, b) ==
    IF StartsWith(b, "/") THEN b
    ELSE IF a = "" \/ EndsWith(a, "/") THEN a \o b
    ELSE a \o "/" \o b

determine_worktree_location(repo_root) ==
    IF repo_root = "" THEN ""
    ELSE IF StartsWith(repo_root, Home \o "/code/work")
         THEN PathJoin(Home \o "/code/work/.worktrees", Basename(repo_root))
    ELSE PathJoin(Home \o "/code/.worktrees", Basename(repo_root))

\* check_worktree_suggestion for the branch the command creates
SuggestionFor(r, command, branch_name, location) ==
    IF ~StartsWith(Strip(command), "git ") THEN ""
    ELSE IF branch_name = "" THEN ""
    ELSE IF r.in_worktree THEN ""
    ELSE IF ~is_feature_branch(branch_name) THEN ""
    ELSE IF location = "" THEN ""
    ELSE PathJoin(location, branch_name)

\* the path the suggestion names, "" when there is no suggestion
check_worktree_suggestion(r, command) ==
    SuggestionFor(r, command, extract_branch_from_command(command),
                  determine_worktree_location(r.repo_root))

(***************************************************************************)
(* The unified hooks.  A hook's output is its verdict: "deny" and "ask"    *)
(* are the permissionDecision it prints, "allow" is {'decision':           *)
(* 'approve'}; context is the additionalContext of an approval.            *)
(***************************************************************************)
Verdict(v, why) == [verdict |-> v, reason |-> why, context |-> ""]

\* the answers of the four checks for the expanded command
GitChecks(r, command) ==
    [add |-> check_git_add_command(r, command),
     checkout |-> check_git_checkout_command(r, command),
     workflow |-> check_git_branch_workflow(r, command),
     suggestion |-> check_worktree_suggestion(r, command)]

\* a plausible slip: the hook answers with the staging question at once
GitVerdictAddAskExits(c) ==
    IF c.add.decision = "block" THEN Verdict("deny", c.add.reason)
    ELSE IF c.add.decision = "ask" THEN Verdict("ask", c.add.reason)
    ELSE IF c.checkout.decision = "block" THEN Verdict("deny", c.checkout.reason)
    ELSE IF c.workflow.decision = "block" THEN Verdict("deny", c.workflow.reason)
    ELSE IF c.workflow.decision = "ask" THEN Verdict("ask", c.workflow.reason)
    ELSE [verdict |-> "allow", reason |-> "none", context |-> c.suggestion]

git_pre_hook_main_add_ask_exits(data, r) ==
    IF data.tool_name # "Bash" THEN Verdict("allow", "none")
    ELSE GitVerdictAddAskExits(GitChecks(r, expand_command_aliases(r, data.command)))

\* what main prints for the answers of its checks: the staging check only
\* stops the hook when it blocks
GitVerdict(c) ==
    IF c.add.decision = "block" THEN Verdict("deny", c.add.reason)
    ELSE IF c.checkout.decision = "block" THEN Verdict("deny", c.checkout.reason)
    ELSE IF c.workflow.decision = "block" THEN Verdict("deny", c.workflow.reason)
    ELSE IF c.workflow.decision = "ask" THEN Verdict("ask", c.workflow.reason)
    ELSE [verdict |-> "allow", reason |-> "none", context |-> c.suggestion]

\* git_pre_hook.main
git_pre_hook_main(data, r) ==
    IF data.tool_name # "Bash" THEN Verdict("allow", "none")
    ELSE GitVerdict(GitChecks(r, expand_command_aliases(r, data.command)))

\* what main prints for the answers of rm, kubectl and terraform
CommandVerdict(rm, kubectl, terraform) ==
    IF rm.verdict = "deny" THEN Verdict("deny", rm.reason)
    ELSE IF kubectl = "block" THEN Verdict("deny", "kubectl")
    ELSE IF kubectl = "ask" THEN Verdict("ask", "kubectl")
    ELSE IF terraform = "block" THEN Verdict("deny", "terraform")
    ELSE IF terraform = "ask" THEN Verdict("ask", "terraform")
    ELSE Verdict("allow", "none")

\* command_hook.main: rm, then kubectl, then terraform
command_hook_main(data, r) ==
    IF data.tool_name # "Bash" THEN Verdict("allow", "none")
    ELSE CommandVerdict(check_rm_command(data.command, r),
                        check_kubectl_command(data.command),
                        check_terraform_command(data.command))

(***************************************************************************)
(* Specification SpecGit: the checks of the git hook applied to single     *)
(* subcommands and to chains of subcommands, in every repository state of  *)
(* GitRepos.  A request carries what it was built from: the subcommands of *)
(* a chain, the kind of a single subcommand, the directory a -C or         *)
(* --work-tree flag names and the name of the branch it creates.           *)
(***************************************************************************)
MaxSubcommands == 3

GitDirs == {"", "/wt"}

GitBranches == {"main", "master", "PROJ-123-feature", "HEAD", None}

GitFiles == {"new.txt", "README.md"}

GitAliases == [a \in {"gco", "gcam"} |-> IF a = "gco" THEN "git checkout" ELSE "git commit -a -m"]

CleanRepo ==
    [kind |-> "git", branch |-> [d \in GitDirs |-> "PROJ-123-feature"],
     status |-> [f \in GitFiles |-> ""], dir_files |-> [d \in {"src"} |-> <<>>],
     other_changes |-> 0, git_ok |-> TRUE, aliases |-> GitAliases,
     in_worktree |-> FALSE, repo_root |-> Home \o "/code/proj"]

\* the states in which only the branches differ
BranchRepos == {[CleanRepo EXCEPT !.branch = b] : b \in [GitDirs -> GitBranches]}

\* the states in which only the files differ: untracked or modified
StatusRepos == {[CleanRepo EXCEPT !.status = st] : st \in [GitFiles -> {"??", " M"}]}

\* op.join(subs)
RECURSIVE JoinWith(_, _)
JoinWith(subs, op) ==
    IF Len(subs) = 0 THEN ""
    ELSE IF Len(subs) = 1 THEN subs[1]
    ELSE subs[1] \o op \o JoinWith(Tail(subs), op)

SeqsUpTo(S, n) == UNION {[1..k -> S] : k \in 1..n}

ChainOperators == {" && ", ";"}

AddSegments ==
    {"git add new.txt", "git add README.md", "git add -A", "git add *.py", "echo ok"}

WorkflowSegments ==
    {"cd /wt", "git commit -m 'msg'", "git checkout -b my-feature", "git stash",
     "git status"}

ChainRequests(o, segments) ==
    {[op |-> o, command |-> JoinWith(subs, sep), subs |-> subs] :
        subs \in SeqsUpTo(segments, MaxSubcommands), sep \in ChainOperators}

CommitForms ==
    {[text |-> "git commit -m 'msg'", dir |-> ""],
     [text |-> "git  commit --amend", dir |-> ""],
     [text |-> "git -C /wt commit -m msg", dir |-> "/wt"],
     [text |-> "git --work-tree=/wt commit", dir |-> "/wt"]}

NewBranchForms == {"git checkout -b ", "git switch -c ", "git switch --create ",
                   "git checkout --track -b "}

NewBranchNames == {"PROJ-123-feature", "my-feature", "proj-1-fix", "PROJ-fix", "A-1"}

OtherSubcommands == {"git status", "git checkout main", "git stash pop", "git stash",
                     "ls -la"}

SingleRequests ==
    {[op |-> "check_single_subcommand", command |-> c.text, cwd |-> w, kind |-> "commit",
      dir |-> c.dir, new_name |-> ""] : c \in CommitForms, w \in GitDirs}
    \cup {[op |-> "check_single_subcommand", command |-> f \o n \o t, cwd |-> w,
           kind |-> "new_branch", dir |-> "", new_name |-> n] :
             f \in NewBranchForms, n \in NewBranchNames, t \in {"", " origin/main"},
             w \in {""}}
    \cup {[op |-> "check_single_subcommand", command |-> c, cwd |-> w, kind |-> "other",
           dir |-> "", new_name |-> ""] : c \in OtherSubcommands, w \in GitDirs}

GitRequests ==
    SingleRequests
    \cup ChainRequests("check_git_add_command", AddSegments)
    \cup ChainRequests("check_git_branch_workflow", WorkflowSegments)

\* the states a chain of subcommands is checked in
ChainBranchRepos ==
    {r \in BranchRepos : r.branch[""] # "master" /\ r.branch["/wt"] \in {"master", "HEAD"}}

\* the repository states that matter to a request
GitReposOf(req) ==
    IF req.op = "check_git_add_command" THEN StatusRepos
    ELSE IF req.op = "check_git_branch_workflow" THEN ChainBranchRepos
    ELSE BranchRepos

InitGit ==
    /\ pc = "start"
    /\ request \in GitRequests
    /\ repo \in GitReposOf(request)
    /\ flag_file = FALSE
    /\ result = NoResult
    /\ history = <<>>

CheckSingleSubcommand ==
    /\ pc = "start"
    /\ request.op = "check_single_subcommand"
    /\ result' = check_single_subcommand(repo, request.command, request.cwd)
    /\ pc' = "done"
    /\ UNCHANGED <<request, repo, flag_file, history>>

CheckGitAddCommand ==
    /\ pc = "start"
    /\ request.op = "check_git_add_command"
    /\ result' = check_git_add_command(repo, request.command)
    /\ pc' = "done"
    /\ UNCHANGED <<request, repo, flag_file, history>>

CheckGitBranchWorkflow ==
    /\ pc = "start"
    /\ request.op = "check_git_branch_workflow"
    /\ result' = check_git_branch_workflow(repo, request.command)
    /\ pc' = "done"
    /\ UNCHANGED <<request, repo, flag_file, history>>

NextGit == CheckSingleSubcommand \/ CheckGitAddCommand \/ CheckGitBranchWorkflow

SpecGit == InitGit /\ [][NextGit]_vars

\* the directory the subcommand at position i of a chain runs in: the target
\* of the last cd before it
RECURSIVE DirAt(_, _)
DirAt(subs, i) ==
    IF i <= 1 THEN ""
    ELSE IF StartsWith(subs[i - 1], "cd ") THEN SubSeq(subs[i - 1], 4, Len(subs[i - 1]))
    ELSE DirAt(subs, i - 1)

\* the verdict of every subcommand of the chain on its own
SubVerdicts ==
    [i \in 1..Len(request.subs) |->
        IF request.op = "check_git_add_command"
        THEN check_single_git_add_command(repo, request.subs[i])
        ELSE IF StartsWith(request.subs[i], "cd ")
             THEN [decision |-> "allow", reason |-> "none"]
        ELSE check_single_subcommand(repo, request.subs[i], DirAt(request.subs, i))]

Positions(verdicts, d) == {i \in DOMAIN verdicts : verdicts[i].decision = d}

Least(S) == CHOOSE i \in S : \A j \in S : i <= j

ChainDone ==
    pc = "done" /\ request.op \in {"check_git_add_command", "check_git_branch_workflow"}

\* C4: check_git_add_command and check_git_branch_workflow return the verdict
\* of the first subcommand that yields Deny if any subcommand does, whatever
\* comes before it; otherwise the verdict of the first subcommand that yields
\* Ask if any does; otherwise Allow.
C4_PrecedenceDenyAskAllow ==
    ChainDone =>
        LET verdicts == SubVerdicts
            denies == Positions(verdicts, "block")
            asks == Positions(verdicts, "ask")
        IN /\ denies # {} => result = verdicts[Least(denies)]
           /\ denies = {} /\ asks # {} => result = verdicts[Least(asks)]
           /\ denies = {} /\ asks = {} => result.decision = "allow"

\* a Deny behind an Ask and before another Deny
C4_Witness ==
    /\ ChainDone
    /\ LET verdicts == SubVerdicts
           denies == Positions(verdicts, "block")
           asks == Positions(verdicts, "ask")
       IN /\ asks # {}
          /\ Cardinality(denies) >= 2
          /\ Least(asks) < Least(denies)
          /\ verdicts[Least(denies)] # verdicts[3]
    /\ result.decision = "block"

\* what the claims call the required prefix: capital letters, a dash, a digit
RequiredPrefix(name) ==
    \E k \in 2..Len(name) :
        /\ Char(name, k) = "-"
        /\ \A j \in 1..(k - 1) : Contains("ABCDEFGHIJKLMNOPQRSTUVWXYZ", Char(name, j))
        /\ Contains("0123456789", Char(name, k + 1))

\* the branch a commit of the request would land on
CommitBranch == repo.branch[IF request.dir # "" THEN request.dir ELSE request.cwd]

SingleDone == pc = "done" /\ request.op = "check_single_subcommand"

\* C9: for a single subcommand the branch/workflow check answers a commit with
\* Deny exactly when the current branch is main or master, with Ask on every
\* other known branch (the prefix hint when the branch name lacks the required
\* prefix, the plain confirmation otherwise) and with Allow exactly when the
\* branch cannot be determined; it answers the creation of a branch with Ask
\* exactly when the new name lacks the required prefix, and with Allow otherwise.
C9_SingleSubcommandVerdict ==
    SingleDone =>
        /\ request.kind = "commit" =>
              /\ result.decision = "block" <=> CommitBranch \in {"main", "master"}
              /\ result.decision = "allow" <=> CommitBranch = None
              /\ CommitBranch \notin {"main", "master", None} =>
                    /\ result.decision = "ask"
                    /\ result.reason = IF RequiredPrefix(CommitBranch)
                                       THEN "commit_approval" ELSE "branch_missing_prefix"
        /\ request.kind = "new_branch" =>
              /\ result.decision = "ask" <=> ~RequiredPrefix(request.new_name)
              /\ result.decision \in {"ask", "allow"}

\* a commit in the directory -C names, refused because that branch is master
\* although the branch of the hook's own directory would only be asked about
C9_Witness ==
    /\ SingleDone
    /\ request.kind = "commit"
    /\ request.dir = "/wt"
    /\ repo.branch["/wt"] = "master"
    /\ repo.branch[""] = "PROJ-123-feature"
    /\ result.decision = "block"
(***************************************************************************)
(* Specification SpecHooks: one invocation of a unified hook (command_hook,*)
(* git_pre_hook or file_hook) on a tool request, in every environment of   *)
(* HookEnvironments.                                                       *)
(***************************************************************************)
MaxHookSubcommands == 2

CommandHookCommands ==
    {"rm -rf build", "rm a.txt", "kubectl get pods", "kubectl delete pod x",
     "kubectl port-forward svc/x 80", "terraform plan", "terraform apply -auto-approve",
     "tf destroy", "ls -la", "kubectl delete pod x; rm a.txt",
     "kubectl port-forward svc/x 80 && rm a.txt", "rm build && terraform apply"}

HookGitSegments ==
    {"git add README.md", "git add -A", "git checkout main", "gco -f main",
     "git commit -m 'msg'", "gcam 'msg'", "git checkout -b my-feature", "git stash",
     "git status"}

HookRequests ==
    {r \in FileRequests : r.op = "file_hook"}
    \cup [op : {"command_hook"}, tool_name : {"Bash", "Read"}, command : CommandHookCommands]
    \cup {[op |-> "git_pre_hook", tool_name |-> t, command |-> JoinWith(subs, " && ")] :
             subs \in SeqsUpTo(HookGitSegments, MaxHookSubcommands), t \in {"Bash"}}
    \cup {[op |-> "git_pre_hook", tool_name |-> "Read", command |-> "git add -A"]}

HookGitRepos ==
    {[CleanRepo EXCEPT !.branch = [d \in GitDirs |-> b],
                       !.status = [f \in GitFiles |-> IF f = "new.txt" THEN n ELSE m]] :
        b \in {"main", "PROJ-123-feature", None}, n \in {"", "??"}, m \in {"", " M"}}

HookEnvironments(req) ==
    IF req.op = "file_hook" THEN FileSystemsOf(req)
    ELSE IF req.op = "command_hook"
         THEN {r \in RmRepos : r.ignored \in {{}, {"build"}}}
    ELSE HookGitRepos

InitHooks ==
    /\ pc = "start"
    /\ request \in HookRequests
    /\ repo \in HookEnvironments(request)
    /\ flag_file \in IF request.op = "file_hook" THEN BOOLEAN ELSE {FALSE}
    /\ result = NoResult
    /\ history = <<>>

CommandHook ==
    /\ pc = "start"
    /\ request.op = "command_hook"
    /\ result' = command_hook_main(request, repo)
    /\ pc' = "done"
    /\ UNCHANGED <<request, repo, flag_file, history>>

GitPreHook ==
    /\ pc = "start"
    /\ request.op = "git_pre_hook"
    /\ result' = git_pre_hook_main(request, repo)
    /\ pc' = "done"
    /\ UNCHANGED <<request, repo, flag_file, history>>

NextHooks == CommandHook \/ GitPreHook \/ FileHook

SpecHooks == InitHooks /\ [][NextHooks]_vars

\* a check's decision as a hook verdict
AsVerdict(d) == IF d = "block" THEN "deny" ELSE d

\* the verdicts of the three blocking checks of git_pre_hook
GitCheckVerdicts(c) ==
    {AsVerdict(c.add.decision), AsVerdict(c.checkout.decision), AsVerdict(c.workflow.decision)}

\* the verdicts the checks of the invoked hook give for the request, each
\* check taken on its own: command_hook and git_pre_hook hand their checks
\* the command of a Bash request (git_pre_hook after alias expansion),
\* file_hook hands its checks the request itself
CheckVerdicts ==
    IF request.op = "file_hook"
    THEN {AsVerdict(check_claude_md_write(request.tool_name, request.tool_input)),
          check_file_length_limit(request, flag_file, repo).verdict}
    ELSE IF request.tool_name # "Bash" THEN {}
    ELSE IF request.op = "command_hook"
    THEN {check_rm_command(request.command, repo).verdict,
          AsVerdict(check_kubectl_command(request.command)),
          AsVerdict(check_terraform_command(request.command))}
    ELSE GitCheckVerdicts(GitChecks(repo, expand_command_aliases(repo, request.command)))

HookStep == pc = "start" /\ pc' = "done"

\* C2: whenever one of the checks of a unified hook gives Deny for the
\* request, the verdict the hook ends with is Deny, whatever the other checks
\* give and wherever the denying check stands in the order.
C2_AnyDenyIsFinal ==
    [][HookStep /\ "deny" \in CheckVerdicts => result'.verdict = "deny"]_vars

\* the first check asks, the second allows and the last blocks
AskAllowBlock(c) ==
    /\ c.add.decision = "ask"
    /\ c.checkout.decision = "allow"
    /\ c.workflow.decision = "block"

\* the git hook has been asked by its first check and denied by its last
C2_Witness ==
    /\ pc = "done"
    /\ request.op = "git_pre_hook"
    /\ AskAllowBlock(GitChecks(repo, expand_command_aliases(repo, request.command)))
    /\ result.verdict = "deny"

\* C3: when no check of the git hook gives Deny and one of its blocking checks
\* gives Ask, the git hook ends with Ask; staging a tracked, modified file
\* therefore ends with Ask.
C3_AskIsFinalWithoutDeny ==
    [][/\ HookStep
       /\ request.op = "git_pre_hook"
       /\ "deny" \notin CheckVerdicts
       /\ "ask" \in CheckVerdicts
       => result'.verdict = "ask"]_vars

(***************************************************************************)
(* Specification SpecAdd: _check_single_git_add_command on one `git add`   *)
(* subcommand, in every repository state of AddRepos.  A request carries   *)
(* the argument words it was built from.                                   *)
(***************************************************************************)
MaxAddWords == 2

AddDryRunWords == {"-n", "--dry-run"}

AddWildcardWords == {"*", "*.py"}

AddAllWords == {"-A", "--all", "-a", "-fa"}

AddDotWords == {".", "../", "../src"}

AddPlainWords == {"new.txt", "README.md", "src/", "-u"}

AddWords ==
    AddDryRunWords \cup AddWildcardWords \cup AddAllWords \cup AddDotWords \cup AddPlainWords

AddRequests ==
    {[op |-> "check_single_git_add_command",
      command |-> "git" \o sep \o "add " \o JoinWith(words, " "), words |-> words] :
        words \in SeqsUpTo(AddWords, MaxAddWords), sep \in {" ", "  "}}

\* README.md clean or modified, src/ holding it or nothing, git answering or not
AddRepos ==
    {[CleanRepo EXCEPT !.status = [f \in GitFiles |-> IF f = "new.txt" THEN "??" ELSE m],
                       !.dir_files = [d \in {"src"} |-> files],
                       !.git_ok = ok] :
        m \in {"", " M"}, files \in {<<>>, <<"README.md">>}, ok \in BOOLEAN}

InitAdd ==
    /\ pc = "start"
    /\ request \in AddRequests
    /\ repo \in AddRepos
    /\ flag_file = FALSE
    /\ result = NoResult
    /\ history = <<>>

CheckSingleGitAddCommand ==
    /\ pc = "start"
    /\ request.op = "check_single_git_add_command"
    /\ result' = check_single_git_add_command(repo, request.command)
    /\ pc' = "done"
    /\ UNCHANGED <<request, repo, flag_file, history>>

NextAdd == CheckSingleGitAddCommand

SpecAdd == InitAdd /\ [][NextAdd]_vars

AddDone == pc = "done" /\ request.op = "check_single_git_add_command"

\* some argument word of the request is one of S
HasAddWord(S) == \E i \in 1..Len(request.words) : request.words[i] \in S

\* C11: the git-add check denies every non-dry-run `git add` subcommand that
\* contains a wildcard, an all-flag (-A, --all, a short-flag cluster with a/A)
\* or a bare . or ../ target, in every repository state (also when git cannot
\* be asked); a subcommand carrying --dry-run or a -n token is allowed.
C11_DangerousAddDenied ==
    AddDone =>
        /\ HasAddWord(AddDryRunWords) => result.decision = "allow"
        /\ (~HasAddWord(AddDryRunWords)
            /\ HasAddWord(AddWildcardWords \cup AddAllWords \cup AddDotWords))
              => result.decision = "block"

\* an all-flag behind a modified file, denied although git cannot be asked
C11_Witness ==
    /\ AddDone
    /\ request.words = <<"README.md", "-a">>
    /\ repo.status["README.md"] = " M"
    /\ ~repo.git_ok
    /\ result.decision = "block"

(***************************************************************************)
(* Specification SpecCheckout: _check_single_git_checkout_command on one   *)
(* `git checkout` subcommand, in every working-tree state of               *)
(* CheckoutRepos.  A request carries the kind of form it was built as.     *)
(***************************************************************************)
CheckoutNames == {"main", "feature-branch", "my-hotfix", "v1.0"}

CheckoutPaths == {".", "README.md", "lib-b/x"}

CheckoutRequests ==
    {[op |-> "check_single_git_checkout_command", command |-> "git checkout " \o f \o n,
      kind |-> "force"] : f \in {"-f ", "--force "}, n \in CheckoutNames}
    \cup {[op |-> "check_single_git_checkout_command", command |-> "git checkout .",
           kind |-> "dot"]}
    \cup {[op |-> "check_single_git_checkout_command",
           command |-> "git checkout " \o n \o " -- " \o p, kind |-> "restore"] :
             n \in CheckoutNames, p \in CheckoutPaths}
    \cup {[op |-> "check_single_git_checkout_command",
           command |-> "git checkout -- " \o p, kind |-> "restore_no_ref"] :
             p \in CheckoutPaths}
    \cup {[op |-> "check_single_git_checkout_command", command |-> "git checkout " \o n,
           kind |-> "plain"] : n \in CheckoutNames}
    \cup {[op |-> "check_single_git_checkout_command",
           command |-> "git checkout -b " \o n, kind |-> "new_branch"] :
             n \in CheckoutNames}

\* a clean or a changed working tree, git answering or not
CheckoutRepos ==
    {[CleanRepo EXCEPT !.status = [f \in GitFiles |-> IF f = "README.md" THEN m ELSE ""],
                       !.other_changes = n, !.git_ok = ok] :
        m \in {"", " M"}, n \in {0, 11}, ok \in BOOLEAN}

InitCheckout ==
    /\ pc = "start"
    /\ request \in CheckoutRequests
    /\ repo \in CheckoutRepos
    /\ flag_file = FALSE
    /\ result = NoResult
    /\ history = <<>>

CheckSingleGitCheckoutCommand ==
    /\ pc = "start"
    /\ request.op = "check_single_git_checkout_command"
    /\ result' = check_single_git_checkout_command(repo, request.command)
    /\ pc' = "done"
    /\ UNCHANGED <<request, repo, flag_file, history>>

NextCheckout == CheckSingleGitCheckoutCommand

SpecCheckout == InitCheckout /\ [][NextCheckout]_vars

CheckoutDone == pc = "done" /\ request.op = "check_single_git_checkout_command"

\* the reasons of a Deny that no repository query precedes
TextualCheckoutReasons == {"force", "checkout_dot", "discard_directory", "overwrite_file"}

\* C12: every `git checkout` subcommand that is not a -b form and carries a
\* force flag, a bare . target or a `-- .` / `-- <path>` restore form is
\* denied for one of the textual reasons, whatever the working tree and
\* whatever the branch and path names.
C12_DangerousCheckoutDenied ==
    (CheckoutDone /\ request.kind \in {"force", "dot", "restore"}) =>
        /\ result.decision = "block"
        /\ result.reason \in TextualCheckoutReasons

(***************************************************************************)
(* Specification SpecPure: one check called MaxRepeats times in a row with *)
(* the same input.  history holds the answers; repo and flag_file are what *)
(* a call leaves for the next one.                                         *)
(***************************************************************************)
MaxRepeats == 2

PureFileRequests ==
    {[op |-> o, tool_name |-> "Write", tool_input |-> t] :
        o \in {"check_claude_md_write", "check_file_length_limit"},
        t \in {w \in WriteInputs : w.file_path \in {"a.py", "docs/CLAUDE.md"}}}

PureCommandRequests ==
    [op : {"check_rm_command"}, command : {"rm a.txt", "rm -rf build", "ls -la"}]
    \cup [op : {"check_kubectl_command"},
          command : {"kubectl delete pod x", "kubectl get pods",
                     "kubectl port-forward svc/x 80"}]
    \cup [op : {"check_terraform_command"}, command : {"terraform apply", "terraform plan"}]
    \cup [op : {"check_env_bash"},
          command : {"cat .env", ". .env", "git show .env", "echo x | cat .env", "ls -la"}]

PureEnvRequests ==
    {r \in ReadRequests : r.dir = "config/" /\ r.name \in {".env", ".env.example", "README.md"}}
    \cup {r \in GrepRequests : r.path \in {Str(".env"), Str("src/")} /\ r.prefix = "**/"
                               /\ r.body \in {"*.env", "*.py"}}

PureGitRequests ==
    [op : {"check_git_add_command"},
     command : {"git add src/", "git add README.md", "git add -A",
                "git add new.txt && git add src/"}]
    \cup [op : {"check_git_checkout_command"},
          command : {"git checkout main", "git checkout -f main", "git checkout -b x"}]
    \cup [op : {"check_git_branch_workflow"},
          command : {"git commit -m 'msg'", "cd /wt && git commit -m msg", "git stash",
                     "git checkout -b my-feature"}]
    \cup [op : {"check_worktree_suggestion"},
          command : {"git checkout -b PROJ-1-x", "git switch -c fix/x", "git status"}]

PureRequests ==
    PureFileRequests \cup PureCommandRequests \cup PureEnvRequests \cup PureGitRequests

PureEnvironments(req) ==
    IF req.op \in {"check_claude_md_write", "check_file_length_limit"} THEN FileSystemsOf(req)
    ELSE IF req.op = "check_rm_command" THEN {r \in RmRepos : r.ignored \in {{}, {"build"}}}
    ELSE IF req.op = "check_git_add_command" THEN AddRepos
    ELSE IF req.op = "check_git_checkout_command" THEN CheckoutRepos
    ELSE IF req.op = "check_git_branch_workflow" THEN ChainBranchRepos
    ELSE IF req.op = "check_worktree_suggestion"
         THEN {[CleanRepo EXCEPT !.in_worktree = w] : w \in BOOLEAN}
    ELSE {NoRepo}

InitPure ==
    /\ pc = "start"
    /\ request \in PureRequests
    /\ repo \in PureEnvironments(request)
    /\ flag_file \in IF request.op \in {"check_claude_md_write", "check_file_length_limit"}
                     THEN BOOLEAN ELSE {FALSE}
    /\ result = NoResult
    /\ history = <<>>

\* a call of the check the request names has answered; flag and env are
\* the marker file and the environment it leaves
Called(op, answer, flag, env) ==
    /\ pc = "start"
    /\ request.op = op
    /\ history' = Append(history, answer)
    /\ result' = [verdict |-> "answered"]
    /\ flag_file' = flag
    /\ repo' = env
    /\ pc' = IF Len(history) + 1 = MaxRepeats THEN "done" ELSE "start"
    /\ UNCHANGED request

CallClaudeMdWrite ==
    Called("check_claude_md_write",
           check_claude_md_write(request.tool_name, request.tool_input), flag_file, repo)

CallFileLengthLimit ==
    Called("check_file_length_limit",
           [verdict |-> check_file_length_limit(request, flag_file, repo).verdict],
           check_file_length_limit(request, flag_file, repo).flag, repo)

CallRmCommand ==
    Called("check_rm_command", check_rm_command(request.command, repo), flag_file, repo)

CallKubectlCommand ==
    Called("check_kubectl_command", check_kubectl_command(request.command), flag_file, repo)

CallTerraformCommand ==
    Called("check_terraform_command", check_terraform_command(request.command),
           flag_file, repo)

CallEnvRead ==
    Called("check_env_read", check_env_read(request.file_path), flag_file, repo)

CallEnvGrep ==
    Called("check_env_grep", check_env_grep(request.path, request.glob), flag_file, repo)

CallEnvBash ==
    Called("check_env_bash", check_env_bash(request.command), flag_file, repo)

CallGitAddCommand ==
    Called("check_git_add_command", check_git_add_command(repo, request.command),
           flag_file, RepoAfterAdd(repo, extract_subcommands(request.command)))

CallGitCheckoutCommand ==
    Called("check_git_checkout_command", check_git_checkout_command(repo, request.command),
           flag_file, repo)

CallGitBranchWorkflow ==
    Called("check_git_branch_workflow", check_git_branch_workflow(repo, request.command),
           flag_file, repo)

CallWorktreeSuggestion ==
    Called("check_worktree_suggestion", check_worktree_suggestion(repo, request.command),
           flag_file, repo)

NextPure ==
    \/ CallClaudeMdWrite
    \/ CallFileLengthLimit
    \/ CallRmCommand
    \/ CallKubectlCommand
    \/ CallTerraformCommand
    \/ CallEnvRead
    \/ CallEnvGrep
    \/ CallEnvBash
    \/ CallGitAddCommand
    \/ CallGitCheckoutCommand
    \/ CallGitBranchWorkflow
    \/ CallWorktreeSuggestion

SpecPure == InitPure /\ [][NextPure]_vars

FileLengthAnswersDiffer ==
    /\ request.op = "check_file_length_limit"
    /\ Len(history) = 2
    /\ history[1] # history[2]

(***************************************************************************)
(* Specification SpecCommandChain: command_hook on Bash commands made of   *)
(* up to MaxChainSegments subcommands joined by one shell operator.  A     *)
(* request carries the subcommands it was built from.                      *)
(***************************************************************************)
MaxChainSegments == 2

\* kubectl or terraform with a destructive or unknown verb and no dry run
DestructiveSegments == {"kubectl delete pod x", "kubectl frobnicate x", "terraform destroy"}

HarmlessSegments ==
    {"kubectl get pods", "kubectl delete pod x --dry-run=client", "terraform plan",
     "ls -la", "echo ok"}

CommandChainRequests ==
    {[op |-> "command_hook", tool_name |-> "Bash", command |-> JoinWith(subs, sep),
      subs |-> subs] :
        subs \in SeqsUpTo(DestructiveSegments \cup HarmlessSegments, MaxChainSegments),
        sep \in {" && ", " || ", "; "}}

InitCommandChain ==
    /\ pc = "start"
    /\ request \in CommandChainRequests
    /\ repo \in {r \in RmRepos : r.ignored = {}}
    /\ flag_file = FALSE
    /\ result = NoResult
    /\ history = <<>>

NextCommandChain == CommandHook

SpecCommandChain == InitCommandChain /\ [][NextCommandChain]_vars

\* C14: command_hook denies a compound command whenever one of its
\* subcommands, at any position, is a kubectl or terraform invocation with a
\* destructive or unknown verb and no dry-run flag.
C14_DestructiveAnywhereDenied ==
    (pc = "done" /\ \E i \in 1..Len(request.subs) : request.subs[i] \in DestructiveSegments)
        => result.verdict = "deny"

(***************************************************************************)
(* Specification SpecEnvAgree: the three variants of the secret-exposure   *)
(* check asked about the same file: Read on the path, Grep with the path   *)
(* and no glob, Bash with a content-reading command on the path.  history  *)
(* collects the three answers.                                             *)
(***************************************************************************)
AgreeDirs == {"", "config/", "/home/user/project/"}

AgreeNames ==
    {".env", ".ENV", ".env.local", ".env.production", ".env.prod-1", ".env.example",
     ".env.template", ".ENV.Sample", ".env.dist", ".env.example.bak", ".env.examples",
     ".env.local.bak", ".env.distribution", ".env.", ".envrc", "my.env", "README.md"}

AgreeReaders == {"cat", "head -5", "sudo less"}

AgreeRequests ==
    {[op |-> "classify", file_path |-> d \o n, name |-> n, reader |-> c] :
        d \in AgreeDirs, n \in AgreeNames, c \in AgreeReaders}

InitEnvAgree ==
    /\ pc = "start"
    /\ request \in AgreeRequests
    /\ repo = NoRepo
    /\ flag_file = FALSE
    /\ result = NoResult
    /\ history = <<>>

Answered(next_pc, verdict) ==
    /\ result' = [verdict |-> verdict]
    /\ history' = Append(history, verdict)
    /\ pc' = next_pc
    /\ UNCHANGED <<request, repo, flag_file>>

ClassifyByRead ==
    /\ pc = "start"
    /\ request.op = "classify"
    /\ Answered("read", check_env_read(request.file_path))

ClassifyByGrep ==
    /\ pc = "read"
    /\ Answered("grep", check_env_grep(Str(request.file_path), [t |-> "null", v |-> ""]))

ClassifyByBash ==
    /\ pc = "grep"
    /\ Answered("done", check_env_bash(request.reader \o " " \o request.file_path).verdict)

NextEnvAgree == ClassifyByRead \/ ClassifyByGrep \/ ClassifyByBash

SpecEnvAgree == InitEnvAgree /\ [][NextEnvAgree]_vars

\* C15: for every file name the three variants agree: check_env_read denies
\* iff check_env_grep with that path and no glob denies iff check_env_bash
\* denies a content-revealing command on it.
C15_VariantsAgree ==
    (pc = "done" /\ request.op = "classify")
        => (history[1] = history[2] /\ history[2] = history[3])

\* the Read and Grep variants agree on every name
ReadAndGrepAgree ==
    (pc \in {"grep", "done"} /\ request.op = "classify") => history[1] = history[2]

(***************************************************************************)
(* Specification SpecEnvBash: check_env_bash on pipelines of up to         *)
(* MaxPipeSegments segments.  A request carries the segments it was built  *)
(* from.                                                                   *)
(***************************************************************************)
MaxPipeSegments == 2

\* a content-reading command on a sensitive file
ExposingSegments == {"cat .env", "grep KEY .env.local", "sudo tail -1 config/.env"}

\* dot-sourcing a sensitive file
SourcingSegments == {". .env", "source .env.production"}

OtherSegments ==
    {"echo x", "ls -la", "true", "foo", "sort", "cat .env.example", "head -1 README.md",
     "xargs cat .env"}

PipeRequests ==
    {[op |-> "check_env_bash", command |-> JoinWith(segs, sep), segs |-> segs] :
        segs \in SeqsUpTo(ExposingSegments \cup SourcingSegments \cup OtherSegments,
                          MaxPipeSegments),
        sep \in {" | ", "|"}}

InitEnvBash ==
    /\ pc = "start"
    /\ request \in PipeRequests
    /\ repo = NoRepo
    /\ flag_file = FALSE
    /\ result = NoResult
    /\ history = <<>>

CheckEnvBash ==
    /\ pc = "start"
    /\ request.op = "check_env_bash"
    /\ result' = check_env_bash(request.command)
    /\ pc' = "done"
    /\ UNCHANGED <<request, repo, flag_file, history>>

NextEnvBash == CheckEnvBash

SpecEnvBash == InitEnvBash /\ [][NextEnvBash]_vars

\* C16: check_env_bash denies every command in which some pipe segment
\* begins with a content-revealing command and mentions a sensitive file,
\* whatever the other segments begin with, and denies every command that
\* dot-sources a sensitive file.
C16_ExposingSegmentDenied ==
    (/\ pc = "done"
     /\ request.op = "check_env_bash"
     /\ \/ \E i \in 1..Len(request.segs) : request.segs[i] \in ExposingSegments
        \/ request.segs[1] \in SourcingSegments)
        => result.verdict = "deny"

(***************************************************************************)
(* Specification SpecEnvGit: check_env_bash on git commands that name a    *)
(* file.  A request carries the kind of its subcommand and the file.       *)
(***************************************************************************)
\* git show and git cat-file invocations, up to the file argument
GitShowForms == {"show", "show HEAD --", "show -m", "show --stat", "cat-file -p", "cat-file blob"}

\* commit-message mentions and add/status/diff invocations
GitSafeForms ==
    {"add", "add -f", "status", "status --", "diff", "diff HEAD --",
     "commit -m 'update", "commit --message 'ignore"}

GitOtherForms == {"log --", "blame", "rm --cached", "checkout --"}

GitGlobalOptions == {"", "--no-pager ", "-c core.pager=cat "}

GitEnvFiles == {".env", ".env.local", "config/.env", ".env.example", "README.md"}

SensitiveGitEnvFiles == {".env", ".env.local", "config/.env"}

FormKind(form) ==
    IF form \in GitShowForms THEN "show"
    ELSE IF form \in GitSafeForms THEN "safe"
    ELSE "other"

\* a commit message is closed by its quote
GitFormCommand(opts, form, file) ==
    "git " \o opts \o form \o " " \o file \o (IF StartsWith(form, "commit") THEN "'" ELSE "")

EnvGitRequests ==
    {[op |-> "check_env_bash", command |-> GitFormCommand(o, f, n), kind |-> FormKind(f),
      file |-> n] :
        o \in GitGlobalOptions, f \in GitShowForms \cup GitSafeForms \cup GitOtherForms,
        n \in GitEnvFiles}

InitEnvGit ==
    /\ pc = "start"
    /\ request \in EnvGitRequests
    /\ repo = NoRepo
    /\ flag_file = FALSE
    /\ result = NoResult
    /\ history = <<>>

NextEnvGit == CheckEnvBash

SpecEnvGit == InitEnvGit /\ [][NextEnvGit]_vars

\* C17: for a command starting with `git ` that mentions a sensitive file,
\* check_env_bash denies every git show and git cat-file invocation and
\* allows commit-message mentions and add/status/diff invocations; a command
\* that mentions no sensitive file is allowed.
C17_GitShowDeniedRestAllowed ==
    (pc = "done" /\ request.op = "check_env_bash")
        => /\ (request.file \in SensitiveGitEnvFiles /\ request.kind = "show")
                => result.verdict = "deny"
           /\ request.kind = "safe" => result.verdict = "allow"
           /\ request.file \notin SensitiveGitEnvFiles => result.verdict = "allow"

\* the parts of the statement about what is allowed
GitSafeAllowed ==
    (pc = "done" /\ request.op = "check_env_bash")
        => /\ request.kind = "safe" => result.verdict = "allow"
           /\ request.file \notin SensitiveGitEnvFiles => result.verdict = "allow"

\* git show and git cat-file directly after git, without -m, are denied
PlainGitShowDenied ==
    (/\ pc = "done"
     /\ request.op = "check_env_bash"
     /\ request.file \in SensitiveGitEnvFiles
     /\ request.kind = "show"
     /\ \E f \in GitShowForms \ {"show -m"} : request.command = GitFormCommand("", f, request.file))
        => result.verdict = "deny"

(***************************************************************************)
(* Specification SpecCd: check_git_branch_workflow on chains of cd and git *)
(* subcommands.  The hook runs in HookDir; /wt and /other are two more     *)
(* working trees, /wt with a subdirectory sub.  repo.branch is asked with  *)
(* the cwd the code passes to git: "" for None and "." are HookDir, a      *)
(* relative name is looked up under HookDir, where there is no sub.  A     *)
(* request carries, for every subcommand, its kind and the directory its   *)
(* redirection flags select.                                              *)
(***************************************************************************)
MaxCdChain == 3

HookDir == "/repo"

ExistingDirs == {HookDir, "/wt", "/wt/sub", "/other"}

CdSegments ==
    {[text |-> "cd /wt", kind |-> "cd", dir |-> "/wt"],
     [text |-> "cd sub", kind |-> "cd", dir |-> "sub"],
     [text |-> "cd .", kind |-> "cd", dir |-> "."],
     [text |-> "git commit -m msg", kind |-> "commit", dir |-> ""],
     [text |-> "git -C /other commit -m msg", kind |-> "commit", dir |-> "/other"],
     [text |-> "git --work-tree=/wt -C /other commit", kind |-> "commit", dir |-> "/other"],
     [text |-> "git --git-dir=/wt --work-tree /other commit", kind |-> "commit",
      dir |-> "/other"],
     [text |-> "git status", kind |-> "other", dir |-> ""]}

Texts(subs) == [i \in 1..Len(subs) |-> subs[i].text]

CdRequests ==
    {[op |-> "check_git_branch_workflow", command |-> JoinWith(Texts(subs), " && "),
      subs |-> subs] : subs \in SeqsUpTo(CdSegments, MaxCdChain)}

\* the branch of each working tree, as git answers for the cwd it is given
TreeBranches(hook, wt, other) ==
    [d \in {"", ".", "/wt", "/wt/sub", "/other"} |->
        IF d \in {"", "."} THEN hook ELSE IF d = "/other" THEN other ELSE wt]

CdRepos ==
    {[CleanRepo EXCEPT !.branch = TreeBranches(hook, wt, other)] :
        hook \in {"PROJ-123-feature"}, wt \in {"main", "PROJ-123-feature"},
        other \in {"master", "my-feature"}}

InitCd ==
    /\ pc = "start"
    /\ request \in CdRequests
    /\ repo \in CdRepos
    /\ flag_file = FALSE
    /\ result = NoResult
    /\ history = <<>>

NextCd == CheckGitBranchWorkflow

SpecCd == InitCd /\ [][NextCd]_vars

\* where the shell is after `cd target` in directory cur
Reached(cur, target) ==
    IF StartsWith(target, "/") THEN target
    ELSE IF target = "." THEN cur
    ELSE cur \o "/" \o target

\* the directory the shell is in before the subcommand at position i: all
\* cd subcommands before it applied in order, from HookDir
RECURSIVE ShellDirAt(_, _)
ShellDirAt(subs, i) ==
    IF i <= 1 THEN HookDir
    ELSE IF subs[i - 1].kind = "cd" THEN Reached(ShellDirAt(subs, i - 1), subs[i - 1].dir)
    ELSE ShellDirAt(subs, i - 1)

\* the branch of a directory of the machine
TreeBranch(r, d) ==
    IF d = HookDir THEN r.branch[""]
    ELSE IF d \in DOMAIN r.branch THEN r.branch[d]
    ELSE None

\* what the subcommand at position i contributes when its branch is taken
\* where the statement says: nothing for a cd, the commit verdict on the
\* branch of the flag's directory or else of the shell's directory
Contribution(r, subs, i) ==
    IF subs[i].kind = "cd" THEN <<>>
    ELSE IF subs[i].kind = "commit"
         THEN <<CommitDecision(TreeBranch(r, IF subs[i].dir # "" THEN subs[i].dir
                                             ELSE ShellDirAt(subs, i)),
                               PROTECTED_BRANCHES)>>
    ELSE <<[decision |-> "allow", reason |-> "none"]>>

RECURSIVE Contributions(_, _, _)
Contributions(r, subs, i) ==
    IF i > Len(subs) THEN <<>>
    ELSE Contribution(r, subs, i) \o Contributions(r, subs, i + 1)

\* every cd of the chain succeeds
ChainRuns(subs) == \A i \in 1..(Len(subs) + 1) : ShellDirAt(subs, i) \in ExistingDirs

CdDone == pc = "done" /\ request.op = "check_git_branch_workflow"

\* C18: in check_git_branch_workflow a cd subcommand contributes no verdict;
\* every later commit has its branch queried in the directory reached by
\* applying, in order, all cd subcommands before it, unless the git command
\* carries a directory flag, which takes priority (-C over --work-tree over
\* --git-dir).
C18_CommitQueriedWhereCdLeads ==
    (CdDone /\ ChainRuns(request.subs))
        => result = FirstBlockThenAsk(Contributions(repo, request.subs, 1),
                                      [decision |-> "allow", reason |-> "none"])

\* the same for chains whose cd targets are all absolute
AbsoluteCdTracked ==
    (CdDone /\ \A i \in 1..Len(request.subs) :
                  request.subs[i].kind = "cd" => StartsWith(request.subs[i].dir, "/"))
        => result = FirstBlockThenAsk(Contributions(repo, request.subs, 1),
                                      [decision |-> "allow", reason |-> "none"])

(***************************************************************************)
(* Specification SpecStash: the branch/workflow check on git stash         *)
(* invocations, alone through _check_single_subcommand and as a whole      *)
(* command through check_git_branch_workflow, on every combination of      *)
(* branches.  A request carries the kind of its stash subcommand.          *)
(***************************************************************************)
\* bare, push or save, or a flag directly after stash
StashStoreForms ==
    {"git stash", "git stash push", "git stash push -m wip", "git stash save wip",
     "git stash -u", "git stash --include-untracked", "git stash -p", "git  stash",
     "git stash -- README.md"}

StashRetrieveForms ==
    {"git stash pop", "git stash pop --index", "git stash apply", "git stash apply stash@{0}",
     "git stash list", "git stash drop", "git stash clear", "git stash show -p",
     "git stash branch my-feature"}

StashRequests ==
    {[op |-> o, command |-> c, cwd |-> w,
      kind |-> IF c \in StashStoreForms THEN "store" ELSE "retrieve"] :
        o \in {"check_single_subcommand", "check_git_branch_workflow"},
        c \in StashStoreForms \cup StashRetrieveForms, w \in GitDirs}

InitStash ==
    /\ pc = "start"
    /\ request \in {req \in StashRequests :
                       req.op = "check_git_branch_workflow" => req.cwd = ""}
    /\ repo \in BranchRepos
    /\ flag_file = FALSE
    /\ result = NoResult
    /\ history = <<>>

NextStash == CheckSingleSubcommand \/ CheckGitBranchWorkflow

SpecStash == InitStash /\ [][NextStash]_vars

\* C19: the branch/workflow check denies git stash when it is bare, followed
\* by push or save, or followed by a flag, and allows it when followed by
\* pop, apply, list, drop, clear, show or branch, on every current branch.
C19_StashStoreDeniedRetrieveAllowed ==
    pc = "done"
        => /\ request.kind = "store"
                => result = [decision |-> "block", reason |-> "stash"]
           /\ request.kind = "retrieve"
                => result = [decision |-> "allow", reason |-> "none"]

\* a stash with a flag is refused on a feature branch, where a commit would
\* only be asked about
C19_Witness ==
    /\ pc = "done"
    /\ request.op = "check_single_subcommand"
    /\ request.command = "git stash -u"
    /\ repo.branch[""] = "PROJ-123-feature"
    /\ result.decision = "block"

(***************************************************************************)
(* Specification SpecRedirect: _check_single_subcommand on a git           *)
(* subcommand behind a directory-redirection flag, asked from the hook's   *)
(* directory, and then on the same subcommand without the flag, asked with *)
(* the flag's directory as cwd.  history collects the two answers.         *)
(***************************************************************************)
RedirectDir == "/wt"

RedirectFlags ==
    {"-C " \o RedirectDir, "-C" \o RedirectDir, "--work-tree=" \o RedirectDir,
     "--work-tree " \o RedirectDir, "--git-dir=" \o RedirectDir, "--git-dir " \o RedirectDir}

RedirectTails ==
    [commit |-> {"commit -m msg", "commit --amend"},
     stash |-> {"stash", "stash push", "stash -u", "stash pop", "stash list"},
     new_branch |-> {"checkout -b my-feature", "checkout -b PROJ-1-fix",
                     "switch -c my-feature", "switch --create fix"},
     other |-> {"status", "checkout main"}]

RedirectRequests ==
    UNION {{[op |-> "compare_redirect", command |-> "git " \o f \o " " \o t,
             plain |-> "git " \o t, kind |-> k] :
               f \in RedirectFlags, t \in RedirectTails[k]} : k \in DOMAIN RedirectTails}

InitRedirect ==
    /\ pc = "start"
    /\ request \in RedirectRequests
    /\ repo \in BranchRepos
    /\ flag_file = FALSE
    /\ result = NoResult
    /\ history = <<>>

CheckRedirected ==
    /\ pc = "start"
    /\ request.op = "compare_redirect"
    /\ result' = check_single_subcommand(repo, request.command, "")
    /\ history' = Append(history, result')
    /\ pc' = "redirected"
    /\ UNCHANGED <<request, repo, flag_file>>

CheckPlainInDir ==
    /\ pc = "redirected"
    /\ result' = check_single_subcommand(repo, request.plain, RedirectDir)
    /\ history' = Append(history, result')
    /\ pc' = "done"
    /\ UNCHANGED <<request, repo, flag_file>>

NextRedirect == CheckRedirected \/ CheckPlainInDir

SpecRedirect == InitRedirect /\ [][NextRedirect]_vars

\* C20: a directory-redirection flag on a git subcommand only selects the
\* directory whose branch is queried: `git -C p X` gets the verdict of
\* `git X` evaluated in p, for commit, stash and new-branch creation alike.
C20_RedirectOnlySelectsDirectory ==
    (pc = "done" /\ request.op = "compare_redirect") => history[1] = history[2]

\* the same for commits alone
CommitRedirectAgrees ==
    (pc = "done" /\ request.op = "compare_redirect" /\ request.kind = "commit")
        => history[1] = history[2]

\* the forms of SpecCheckout that match no always-deny pattern
QueriedCheckoutKinds == {"plain", "restore_no_ref"}

\* what the statement of C21 asks of a finished check
CheckoutByTreeState ==
    /\ request.kind = "new_branch" => result = CheckoutAllow
    /\ (request.kind \in QueriedCheckoutKinds /\ repo.git_ok) =>
          result = IF num_changes(repo) > 0
                   THEN CheckoutBlock("uncommitted_changes", num_changes(repo))
                   ELSE CheckoutAllow

\* C21: a `git checkout` subcommand that matches no always-deny pattern is
\* allowed without a repository query when it is a -b form; otherwise it is
\* denied iff the working tree has uncommitted changes, the reason listing
\* min(n, 10) of the n changed paths and an overflow count of n - 10 when
\* n > 10, and it is allowed when the tree is clean.
C21_CheckoutDeniedIffChanges == CheckoutDone => CheckoutByTreeState

\* the same on the requests whose text holds neither -b nor -h
CheckoutByTreeStateWithoutBypass ==
    (CheckoutDone /\ ~Contains(request.command, "-h")
                  /\ (request.kind # "new_branch" => ~Contains(request.command, "-b")))
        => CheckoutByTreeState

(***************************************************************************)
(* Specification SpecQuery: a check that asks git, with git as a second    *)
(* party.  repo.git says how git behaves for the invocation: it answers,   *)
(* it cannot be started ("missing"), it exits with an error, or it never   *)
(* answers ("hangs").  The check waits in pc = "waiting" for its queries.  *)
(***************************************************************************)
\* the checks whose subprocess.run calls pass timeout=5
ChecksWithTimeout == {"check_rm_command", "check_single_subcommand"}

\* a plausible slip: the except clause hands on what git would have said
QueryRaised_answer_kept(r) == r

\* what the queries of a check yield when subprocess.run raises (git cannot
\* be started, or the timeout expires): the except clauses answer False for
\* is_in_git_repo and is_git_ignored and None for get_current_branch; the
\* git-add and checkout checks take their own except branch (git_ok)
QueryRaised(r) ==
    [r EXCEPT !.in_repo = FALSE, !.ignored = {},
              !.branch = [d \in DOMAIN r.branch |-> None], !.git_ok = FALSE]

\* what the queries yield when git exits with an error: a returncode that is
\* not 0 and nothing on stdout
QueryError(r) ==
    [r EXCEPT !.in_repo = FALSE, !.ignored = {},
              !.branch = [d \in DOMAIN r.branch |-> None],
              !.status = [f \in DOMAIN r.status |-> ""],
              !.dir_files = [d \in DOMAIN r.dir_files |-> <<>>],
              !.other_changes = 0]

\* the check of the request on what its queries yield
QueryCheck(req, r) ==
    IF req.op = "check_rm_command" THEN check_rm_command(req.command, r)
    ELSE IF req.op = "check_single_subcommand" THEN check_single_subcommand(r, req.command, "")
    ELSE IF req.op = "check_single_git_checkout_command"
         THEN check_single_git_checkout_command(r, req.command)
    ELSE check_single_git_add_command(r, req.command)

QueryRequests ==
    {[op |-> "check_rm_command", command |-> "rm -rf build"],
     [op |-> "check_rm_command", command |-> "rm a.txt"],
     [op |-> "check_single_subcommand", command |-> "git commit -m msg"],
     [op |-> "check_single_git_checkout_command", command |-> "git checkout main"],
     [op |-> "check_single_git_checkout_command", command |-> "git checkout -- README.md"],
     [op |-> "check_single_git_add_command", command |-> "git add README.md"],
     [op |-> "check_single_git_add_command", command |-> "git add src/"]}

QueryGitModes == {"answers", "missing", "error_exit", "hangs"}

QueryRepos ==
    {[in_repo |-> TRUE, ignored |-> ig, git |-> g]
       @@ [CleanRepo EXCEPT !.branch = [d \in GitDirs |-> b],
                            !.status = [f \in GitFiles |-> IF f = "README.md" THEN m ELSE ""],
                            !.dir_files = [d \in {"src"} |-> IF m = "" THEN <<>>
                                                             ELSE <<"README.md">>]] :
        ig \in {{}, {"build"}}, g \in QueryGitModes, b \in {"main", "PROJ-123-feature"},
        m \in {"", " M"}}

InitQuery ==
    /\ pc = "start"
    /\ request \in QueryRequests
    /\ repo \in QueryRepos
    /\ flag_file = FALSE
    /\ result = NoResult
    /\ history = <<>>

\* the check reaches its first subprocess.run
RunQuery ==
    /\ pc = "start"
    /\ request \in QueryRequests
    /\ pc' = "waiting"
    /\ UNCHANGED <<request, repo, flag_file, result, history>>

QueryAnswers ==
    /\ pc = "waiting"
    /\ repo.git = "answers"
    /\ result' = QueryCheck(request, repo)
    /\ pc' = "done"
    /\ UNCHANGED <<request, repo, flag_file, history>>

QueryFails ==
    /\ pc = "waiting"
    /\ repo.git \in {"missing", "error_exit"}
    /\ result' = QueryCheck(request, IF repo.git = "missing" THEN QueryRaised(repo)
                                     ELSE QueryError(repo))
    /\ pc' = "done"
    /\ UNCHANGED <<request, repo, flag_file, history>>

\* subprocess.TimeoutExpired, raised only where a timeout was passed
QueryTimesOut ==
    /\ pc = "waiting"
    /\ repo.git = "hangs"
    /\ request.op \in ChecksWithTimeout
    /\ result' = QueryCheck(request, QueryRaised(repo))
    /\ pc' = "done"
    /\ UNCHANGED <<request, repo, flag_file, history>>

NextQuery == RunQuery \/ QueryAnswers \/ QueryFails \/ QueryTimesOut

SpecQuery == InitQuery /\ [][NextQuery]_vars

\* subprocess.run returns or raises: git ends, or a timeout was passed
QueryEnds == repo.git # "hangs" \/ request.op \in ChecksWithTimeout

\* the next step of the check, as a change of pc: NextQuery has a step
\* exactly when pc is "start", or "waiting" with QueryEnds
Proceeds ==
    /\ pc = "start" \/ (pc = "waiting" /\ QueryEnds)
    /\ pc' \in {"waiting", "done"}
    /\ pc' # pc

\* the interpreter takes the next step of the check whenever there is one
SpecQueryFair == SpecQuery /\ WF_pc(Proceeds)

\* the documented fail-safe values as answers: not inside a repository, not
\* ignored, branch null, nothing modified, not a worktree
FailSafe(r) ==
    [r EXCEPT !.in_repo = FALSE, !.ignored = {},
              !.branch = [d \in DOMAIN r.branch |-> None],
              !.status = [f \in DOMAIN r.status |-> ""],
              !.dir_files = [d \in DOMAIN r.dir_files |-> <<>>],
              !.other_changes = 0, !.in_worktree = FALSE, !.git_ok = TRUE]

QueryFailed == pc = "done" /\ "git" \in DOMAIN repo /\ repo.git # "answers"

CautiousOnRaise(req) ==
    \/ req.op = "check_single_git_checkout_command"
    \/ req.op = "check_single_git_add_command" /\ EndsWith(req.command, "/")

C23_EveryCheckTerminates == <>(pc = "done")

\* the checks that pass a timeout end
ChecksWithTimeoutTerminate == (request.op \in ChecksWithTimeout) => <>(pc = "done")

(***************************************************************************)
(* The marker outside the over-limit case, on the invocations of SpecFile. *)
(***************************************************************************)
\* the paths of FilePaths with a recognized source-code extension
RecognizedPaths == {"a.py", "src/Main.JAVA"}

\* the lines an Edit leaves in a file it can read
EditedLines ==
    repo.lines + request.tool_input.line_delta
                   * (IF request.tool_input.replace_all THEN request.tool_input.old_count
                      ELSE IF request.tool_input.old_count > 0 THEN 1 ELSE 0)

\* the request is a Write/Edit on a recognized extension whose resulting line
\* count is strictly greater than 10000
ExceedsLimit ==
    /\ request.tool_input.file_path \in RecognizedPaths
    /\ \/ request.tool_name = "Write" /\ request.tool_input.content_lines > 10000
       \/ /\ request.tool_name = "Edit"
          /\ repo.exists
          /\ repo.readable
          /\ EditedLines > 10000

FileCallStarts == pc = "start" /\ request.op \in {"check_file_length_limit", "file_hook"}

\* C24: check_file_length_limit neither creates nor deletes the marker unless
\* the request is a Write/Edit on a recognized source-code extension whose
\* resulting line count is strictly greater than 10000; in every other case
\* it allows and leaves the marker as it was, so a pending marker survives
\* any number of such calls.
C24_MarkerUntouchedUnlessOverLimit ==
    [][(FileCallStarts /\ ~ExceedsLimit)
          => /\ flag_file' = flag_file
             /\ request.op = "check_file_length_limit" => result'.verdict = "allow"]_vars

\* a marker left by a Deny is still there after a later Edit that leaves
\* exactly 10000 lines
C24_Witness ==
    /\ pc = "done"
    /\ request.op = "check_file_length_limit"
    /\ request.tool_name = "Edit"
    /\ request.tool_input.file_path = "a.py"
    /\ repo.readable
    /\ EditedLines = 10000
    /\ result.verdict = "allow"
    /\ Len(history) = 1
    /\ history[1].verdict = "deny"
    /\ flag_file

(***************************************************************************)
(* Specification SpecResubmit: up to MaxSubmissions calls of               *)
(* check_file_length_limit in a row, sharing the marker; history keeps     *)
(* every request with its verdict.                                         *)
(***************************************************************************)
MaxSubmissions == 3

SubmitInputs ==
    [file_path : {"a.py", "src/Main.JAVA"},
     content_lines : {MAX_FILE_LINES, MAX_FILE_LINES + 1, MAX_FILE_LINES + 2},
     old_count : {0}, line_delta : {0}, replace_all : {FALSE}]
    \cup [file_path : {"a.py"}, content_lines : {0}, old_count : {1}, line_delta : {1},
          replace_all : {FALSE}]

SubmitRequests ==
    {[op |-> "submit", tool_name |-> IF t.old_count = 0 THEN "Write" ELSE "Edit",
      tool_input |-> t] : t \in SubmitInputs}

\* the file an Edit finds: a.py with exactly MAX_FILE_LINES lines
SubmitFileSystem == [kind |-> "fs", exists |-> TRUE, readable |-> TRUE, lines |-> MAX_FILE_LINES]

InitResubmit ==
    /\ pc = "start"
    /\ request \in SubmitRequests
    /\ repo = SubmitFileSystem
    /\ flag_file = FALSE
    /\ result = NoResult
    /\ history = <<>>

Submitted(r) ==
    /\ result' = [verdict |-> r.verdict]
    /\ flag_file' = r.flag
    /\ history' = Append(history, [data |-> request, verdict |-> r.verdict,
                                   over |-> OverLimit(request, repo)])

Submit ==
    /\ pc = "start"
    /\ request.op = "submit"
    /\ Submitted(check_file_length_limit(request, flag_file, repo))
    /\ pc' = "done"
    /\ UNCHANGED <<request, repo>>

NextSubmission ==
    /\ pc = "done"
    /\ request.op = "submit"
    /\ Len(history) < MaxSubmissions
    /\ request' \in SubmitRequests
    /\ result' = NoResult
    /\ pc' = "start"
    /\ UNCHANGED <<repo, flag_file, history>>

NextResubmit == Submit \/ NextSubmission

SpecResubmit == InitResubmit /\ [][NextResubmit]_vars

\* the over-limit call before position i, 0 when there is none
LastOverBefore(i) ==
    IF \E j \in 1..(i - 1) : history[j].over
    THEN CHOOSE j \in 1..(i - 1) :
            history[j].over /\ \A k \in (j + 1)..(i - 1) : ~history[k].over
    ELSE 0

\* C25: an over-limit operation is allowed only as a re-submission of the
\* operation that was denied: after the Deny of one operation, an over-limit
\* check for a different file or a different write/edit is denied.
C25_AllowedOnlyAsResubmission ==
    \A i \in 1..Len(history) :
        (history[i].over /\ history[i].verdict = "allow")
            => /\ LastOverBefore(i) > 0
               /\ history[LastOverBefore(i)].verdict = "deny"
               /\ history[LastOverBefore(i)].data = history[i].data

\* an over-limit call is allowed only directly after a denied over-limit call
AllowedOnlyAfterDeny ==
    \A i \in 1..Len(history) :
        (history[i].over /\ history[i].verdict = "allow")
            => /\ LastOverBefore(i) > 0
               /\ history[LastOverBefore(i)].verdict = "deny"


(***************************************************************************)
(* Specification SpecFault: invocations of the file-protection hook and of *)
(* the file-length script in a directory where creating or deleting the    *)
(* marker may raise OSError (repo.marker_ok = FALSE).                      *)
(***************************************************************************)
FaultFileSystems(req) == {fs @@ [marker_ok |-> ok] : fs \in FileSystemsOf(req), ok \in BOOLEAN}

InitFault ==
    /\ pc = "start"
    /\ request \in {[r EXCEPT !.op = "fault_" \o r.op] : r \in FileRequests}
    /\ repo \in FaultFileSystems(request)
    /\ flag_file = FALSE
    /\ result = NoResult
    /\ history = <<>>

\* check_file_length_limit where flag_file.unlink() and flag_file.touch()
\* raise when the marker cannot be written; raised: the call ended in OSError
check_file_length_limit_raising(data, flag, fs) ==
    IF OverLimit(data, fs) /\ ~fs.marker_ok
    THEN [verdict |-> "none", flag |-> flag, raised |-> TRUE]
    ELSE [raised |-> FALSE] @@ check_file_length_limit(data, flag, fs)

\* file_hook.main has no exception handler: what the check raises leaves the
\* process with a traceback and no verdict
FaultFileHook ==
    /\ pc = "start"
    /\ request.op = "fault_file_hook"
    /\ IF check_claude_md_write(request.tool_name, request.tool_input) = "block"
       THEN /\ result' = [verdict |-> "deny", raised |-> FALSE]
            /\ flag_file' = flag_file
       ELSE /\ result' = [verdict |-> IF check_file_length_limit_raising(request, flag_file, repo).raised
                                      THEN "uncaught_exception"
                                      ELSE check_file_length_limit_raising(request, flag_file, repo).verdict,
                          raised |-> check_file_length_limit_raising(request, flag_file, repo).raised]
            /\ flag_file' = check_file_length_limit_raising(request, flag_file, repo).flag
    /\ pc' = "done"
    /\ UNCHANGED <<request, repo, history>>

\* file_length_check.py run as a script: its handler turns any exception into
\* an approval
FaultFileLengthScript ==
    /\ pc = "start"
    /\ request.op = "fault_check_file_length_limit"
    /\ result' = [verdict |-> IF check_file_length_limit_raising(request, flag_file, repo).raised
                              THEN "allow"
                              ELSE check_file_length_limit_raising(request, flag_file, repo).verdict,
                  raised |-> check_file_length_limit_raising(request, flag_file, repo).raised]
    /\ flag_file' = check_file_length_limit_raising(request, flag_file, repo).flag
    /\ pc' = "done"
    /\ UNCHANGED <<request, repo, history>>

\* the host starts the next invocation; the directory may have changed
NextFaultRequest ==
    /\ pc = "done"
    /\ request.op \in {"fault_file_hook", "fault_check_file_length_limit"}
    /\ request' \in {[r EXCEPT !.op = "fault_" \o r.op] : r \in FileRequests}
    /\ repo' \in FaultFileSystems(request')
    /\ result' = NoResult
    /\ pc' = "start"
    /\ UNCHANGED <<flag_file, history>>

NextFault == FaultFileHook \/ FaultFileLengthScript \/ NextFaultRequest

SpecFault == InitFault /\ [][NextFault]_vars

\* C26: every invocation of a unified hook ends with a verdict and never in an
\* uncaught exception; when creating or deleting the marker raises, the
\* verdict is Allow
C26_FailureGivesVerdict ==
    pc = "done" =>
        /\ result.verdict \in {"allow", "deny"}
        /\ result.raised => result.verdict = "allow"

\* the script with its own handler does fail open
ScriptFailsOpen ==
    (pc = "done" /\ request.op = "fault_check_file_length_limit")
        => /\ result.verdict \in {"allow", "deny"}
           /\ result.raised => result.verdict = "allow"

\* without a failing marker operation file_hook.main always gives a verdict
FileHookVerdictWithoutFailure ==
    (pc = "done" /\ ~result.raised) => result.verdict \in {"allow", "deny"}


(***************************************************************************)
(* Specification SpecRace: MaxInvocations hook processes for over-limit    *)
(* operations run at once in one working directory.  Each process takes    *)
(* the steps of check_file_length_limit one at a time: the presence test   *)
(* of the marker, then its deletion or its creation; the steps of          *)
(* different processes interleave freely.  request.entry[p] is the program *)
(* process p runs: file_hook.py, or file_length_check.py as a script.      *)
(***************************************************************************)
MaxInvocations == 3

Invocations == 1..MaxInvocations

RaceData ==
    [tool_name |-> "Write",
     tool_input |-> [file_path |-> "a.py", content_lines |-> MAX_FILE_LINES + 1,
                     old_count |-> 0, line_delta |-> 0, replace_all |-> FALSE]]

InitRace ==
    /\ pc = [p \in Invocations |-> "start"]
    /\ request \in [op : {"race"}, data : {RaceData},
                    entry : [Invocations -> {"file_hook", "file_length_check"}]]
    /\ repo = SubmitFileSystem
    /\ flag_file = FALSE
    /\ result = [p \in Invocations |-> NoResult]
    /\ history = <<>>

\* the outcome of process p when its marker operation raised
RaisedOutcome(p) ==
    IF request.entry[p] = "file_hook"
    THEN [verdict |-> "uncaught_exception", error |-> TRUE]
    ELSE [verdict |-> "allow", error |-> TRUE]

\* a process is between its presence test and its marker operation
InFlight(p) == pc[p] \in {"unlink", "touch"}

\* flag_file.exists(); history notes that another process is in flight
MarkerExists(p) ==
    /\ pc[p] = "start"
    /\ OverLimit(request.data, repo)
    /\ pc' = [pc EXCEPT ![p] = IF flag_file THEN "unlink" ELSE "touch"]
    /\ history' = IF \E q \in Invocations : q # p /\ InFlight(q)
                  THEN <<"overlap">> ELSE history
    /\ UNCHANGED <<request, repo, flag_file, result>>

\* flag_file.unlink(); return False, None.  unlink raises FileNotFoundError
\* when the marker is gone
MarkerUnlink(p) ==
    /\ pc[p] = "unlink"
    /\ flag_file' = FALSE
    /\ result' = [result EXCEPT ![p] = IF flag_file THEN [verdict |-> "allow", error |-> FALSE]
                                       ELSE RaisedOutcome(p)]
    /\ pc' = [pc EXCEPT ![p] = "done"]
    /\ UNCHANGED <<request, repo, history>>

\* flag_file.touch(); return True, reason.  touch accepts an existing marker
MarkerTouch(p) ==
    /\ pc[p] = "touch"
    /\ flag_file' = TRUE
    /\ result' = [result EXCEPT ![p] = [verdict |-> "deny", error |-> FALSE]]
    /\ pc' = [pc EXCEPT ![p] = "done"]
    /\ UNCHANGED <<request, repo, history>>

NextRace == \E p \in Invocations : MarkerExists(p) \/ MarkerUnlink(p) \/ MarkerTouch(p)

SpecRace == InitRace /\ [][NextRace]_vars

RaceAllowed == {p \in Invocations : pc[p] = "done" /\ result[p].verdict = "allow"}

RaceDenied == {p \in Invocations : pc[p] = "done" /\ result[p].verdict = "deny"}

\* C27: when invocations for over-limit operations interleave on the same
\* marker, the allowed operations never outnumber the denied ones, and no
\* invocation fails because the marker vanished between its presence test
\* and its deletion
C27_EachDenyAuthorizesOneAllow ==
    /\ Cardinality(RaceAllowed) <= Cardinality(RaceDenied)
    /\ \A p \in Invocations : pc[p] = "done" => ~result[p].error

\* the claim holds as long as no two invocations were in flight together
HoldsWithoutOverlap ==
    history = <<>> =>
        /\ Cardinality(RaceAllowed) <= Cardinality(RaceDenied)
        /\ \A p \in Invocations : pc[p] = "done" => ~result[p].error


(***************************************************************************)
(* Specification SpecAlias: a sequence of expand_alias and                 *)
(* expand_command_aliases calls in one process.  repo.alias_cache is the   *)
(* module variable _alias_cache (loaded = FALSE for None), repo.shell what *)
(* running $SHELL -i -c alias would do at this moment; the shell's aliases *)
(* may change between calls.  history keeps one entry for every run of     *)
(* the shell.                                                              *)
(***************************************************************************)
NoAliases == [a \in {} |-> ""]

\* _alias_cache[name] = value
WithAlias(table, name, value) ==
    [a \in DOMAIN table \cup {name} |-> IF a = name THEN value ELSE table[a]]

\* value with the surrounding pair of quotes removed
Unquote(value) ==
    IF (StartsWith(value, "'") /\ EndsWith(value, "'"))
       \/ (StartsWith(value, "\"") /\ EndsWith(value, "\""))
    THEN SubSeq(value, 2, Len(value) - 1) ELSE value

\* name, _, value = line.partition('='), eq being the position of the first =
ParseNameValue(table, line, eq) ==
    IF eq > Len(line) THEN table
    ELSE IF Strip(SubSeq(line, 1, eq - 1)) = "" THEN table
    ELSE WithAlias(table, Strip(SubSeq(line, 1, eq - 1)),
                   Unquote(Strip(SubSeq(line, eq + 1, Len(line)))))

\* one stripped line of the shell's output
ParseAliasLine(table, line) ==
    IF line = "" THEN table
    ELSE IF StartsWith(line, "alias ")
    THEN ParseNameValue(table, SubSeq(line, 7, Len(line)),
                        FirstFrom(LAMBDA j : Char(line, j + 6) = "=", 1, Len(line) - 6))
    ELSE ParseNameValue(table, line, FirstFrom(LAMBDA j : Char(line, j) = "=", 1, Len(line)))

RECURSIVE ParseAliasOutput(_, _)
ParseAliasOutput(table, lines) ==
    IF Len(lines) = 0 THEN table
    ELSE ParseAliasOutput(ParseAliasLine(table, Strip(lines[1])), Tail(lines))

\* the modes in which subprocess.run raises
ShellRaises == {"missing", "hangs"}

\* a plausible slip: the shell is asked on every lookup
load_alias_cache_reloads(cache, shell) ==
    [cache |-> [loaded |-> TRUE,
                table |-> IF shell.mode \in ShellRaises THEN NoAliases
                          ELSE ParseAliasOutput(NoAliases, shell.output)],
     ran |-> TRUE]

\* _load_alias_cache: the cache it leaves, and whether it ran the shell
load_alias_cache(cache, shell) ==
    IF cache.loaded THEN [cache |-> cache, ran |-> FALSE]
    ELSE [cache |-> [loaded |-> TRUE,
                     table |-> IF shell.mode \in ShellRaises THEN NoAliases
                               ELSE ParseAliasOutput(NoAliases, shell.output)],
          ran |-> TRUE]

\* expand_alias reaches its call of _load_alias_cache
NeedsLookup(words) ==
    /\ Len(words) > 0
    /\ words[1] \notin AliasSkipTokens
    /\ ~Contains(words[1], "/")

\* expand_command_aliases calls expand_alias on every stripped non-empty part
CommandNeedsLookup(subcmds) == \E i \in 1..Len(subcmds) : NeedsLookup(Split(subcmds[i]))

AliasCommands ==
    {"git status", "gco main", "  gco main ;  gcam  msg  ", "rm x && vim/y", "  ls  ", "gs"}

AliasRequests == [op : {"expand_alias", "expand_command_aliases"}, command : AliasCommands]

AliasShells ==
    {[mode |-> "answers", output |-> <<"alias gco='git checkout'", "alias gcam='git commit -a -m'">>],
     [mode |-> "answers", output |-> <<"gco=\"echo changed\"", "", "junk">>],
     [mode |-> "error_exit", output |-> <<"alias gco='git checkout'">>],
     [mode |-> "missing", output |-> <<>>],
     [mode |-> "hangs", output |-> <<"alias gco='git checkout'">>]}

InitAlias ==
    /\ pc = "start"
    /\ request \in AliasRequests
    /\ repo \in [kind : {"process"}, alias_cache : {[loaded |-> FALSE, table |-> NoAliases]},
                 shell : AliasShells]
    /\ flag_file = FALSE
    /\ result = NoResult
    /\ history = <<>>

\* l is what _load_alias_cache answered, or the cache untouched when the call
\* never reached it
AliasCallDone(l, out) ==
    /\ repo' = [repo EXCEPT !.alias_cache = l.cache]
    /\ history' = IF l.ran
                  THEN Append(history, [mode |-> repo.shell.mode, table |-> l.cache.table,
                                        op |-> request.op, command |-> request.command])
                  ELSE history
    /\ result' = [out |-> out]
    /\ pc' = "done"
    /\ UNCHANGED <<request, flag_file>>

LookedUp(needed) ==
    IF needed THEN load_alias_cache(repo.alias_cache, repo.shell)
    ELSE [cache |-> repo.alias_cache, ran |-> FALSE]

ExpandAliasWith(l) ==
    AliasCallDone(l, expand_alias([aliases |-> l.cache.table], request.command))

ExpandAlias ==
    /\ pc = "start"
    /\ request.op = "expand_alias"
    /\ ExpandAliasWith(LookedUp(NeedsLookup(Split(request.command))))

ExpandCommandAliasesWith(l) ==
    AliasCallDone(l, expand_command_aliases([aliases |-> l.cache.table], request.command))

ExpandCommandAliases ==
    /\ pc = "start"
    /\ request.op = "expand_command_aliases"
    /\ ExpandCommandAliasesWith(LookedUp(CommandNeedsLookup(extract_subcommands(request.command))))

\* the next call in the same process; the aliases of the shell may differ
NextAliasCall ==
    /\ pc = "done"
    /\ request.op \in {"expand_alias", "expand_command_aliases"}
    /\ request' \in AliasRequests
    /\ repo' \in {[repo EXCEPT !.shell = s] : s \in AliasShells}
    /\ result' = NoResult
    /\ pc' = "start"
    /\ UNCHANGED <<flag_file, history>>

NextAlias == ExpandAlias \/ ExpandCommandAliases \/ NextAliasCall

SpecAlias == InitAlias /\ [][NextAlias]_vars

\* the call that just ended needed a lookup
CallNeededLookup ==
    IF request.op = "expand_alias" THEN NeedsLookup(Split(request.command))
    ELSE CommandNeedsLookup(extract_subcommands(request.command))

\* the shell is run at most once, by the first call that needs a lookup, and
\* the table is for ever the one that run produced
LoadedOnce ==
    /\ Len(history) <= 1
    /\ repo.alias_cache.loaded <=> Len(history) = 1
    /\ (pc = "done" /\ CallNeededLookup) => repo.alias_cache.loaded
    /\ Len(history) = 1 =>
          /\ repo.alias_cache.table = history[1].table
          /\ IF history[1].op = "expand_alias" THEN NeedsLookup(Split(history[1].command))
             ELSE CommandNeedsLookup(extract_subcommands(history[1].command))

LoadFailed == Len(history) >= 1 /\ history[1].mode \in ShellRaises

FailedLoadWitness ==
    /\ pc = "done"
    /\ LoadFailed
    /\ repo.shell.mode = "answers"
    /\ request.command = "  gco main ;  gcam  msg  "
    /\ request.op = "expand_command_aliases"
    /\ result.out = "gco main ;  gcam  msg"


(***************************************************************************)
(* Specification SpecExpand: expand_command_aliases followed by            *)
(* extract_subcommands, next to extract_subcommands followed by            *)
(* expand_alias on every element, on chained commands and several alias    *)
(* tables (repo.aliases).                                                  *)
(***************************************************************************)
ExpandSegments == {"gco main", "gcam  'a", "nop", "git status", "./gco x", " ls ", "rm gco"}

ExpandOperators == {" && ", "||", ";", " ; "}

ExpandCommands ==
    ExpandSegments
    \cup {a \o o \o b : a \in ExpandSegments, o \in ExpandOperators, b \in ExpandSegments}

ExpandTables ==
    {NoAliases,
     GitAliases,
     WithAlias(GitAliases, "nop", "true"),
     WithAlias(GitAliases, "nop", ""),
     WithAlias(WithAlias(NoAliases, "gco", " git  checkout "), "ls", "ls -l"),
     WithAlias(GitAliases, "nop", "git add . && git commit")}

InitExpand ==
    /\ pc = "start"
    /\ request \in [op : {"expand_then_extract"}, command : ExpandCommands]
    /\ repo \in [kind : {"aliases"}, aliases : ExpandTables]
    /\ flag_file = FALSE
    /\ result = NoResult
    /\ history = <<>>

\* [expand_alias(s) for s in subcmds]
ExpandEach(r, subcmds) == [i \in 1..Len(subcmds) |-> expand_alias(r, subcmds[i])]

ExpandThenExtract ==
    /\ pc = "start"
    /\ request.op = "expand_then_extract"
    /\ result' = [expanded |-> extract_subcommands(expand_command_aliases(repo, request.command)),
                  each |-> ExpandEach(repo, extract_subcommands(request.command))]
    /\ pc' = "done"
    /\ UNCHANGED <<request, repo, flag_file, history>>

NextExpand == ExpandThenExtract

SpecExpand == InitExpand /\ [][NextExpand]_vars

\* no expansion of the table contains a chaining operator
NoChainingOperator(table) ==
    \A a \in DOMAIN table : \A i \in 1..Len(table[a]) : OperatorAt(table[a], i) = 0

\* no expansion of the table is empty or blank
NoBlankExpansion(table) == \A a \in DOMAIN table : Strip(table[a]) # ""

\* expand_alias rewrote at most the first token of s, and nothing when that
\* token is a path or one of the known commands
FirstTokenOnly(table, s, words, out) ==
    IF words[1] \in AliasSkipTokens \/ Contains(words[1], "/") \/ words[1] \notin DOMAIN table
    THEN out = s
    ELSE Split(out) = Split(table[words[1]]) \o Tail(words)

BlankExpansionDropsSubcommand ==
    /\ pc = "done"
    /\ request.command = "nop && gco main"
    /\ repo.aliases = WithAlias(GitAliases, "nop", "")
    /\ result.expanded = <<"git checkout main">>
    /\ result.each = <<"", "git checkout main">>


(***************************************************************************)
(* Specification SpecSuggest: the git hook, and worktree_suggestion.py run *)
(* as a hook of its own, on commands that create branches, alone and       *)
(* chained with a staging, checkout or commit subcommand.                  *)
(***************************************************************************)
SuggestSegments ==
    {"git add README.md", "git add -A", "git checkout main", "git commit -m 'msg'",
     "git checkout -b PROJ-123-new", "git checkout -b my-feature",
     "git switch -c hotfix/urgent-fix"}

SuggestCommands ==
    {JoinWith(subs, " && ") : subs \in SeqsUpTo(SuggestSegments, MaxHookSubcommands)}

SuggestRequests ==
    [op : {"git_pre_hook"}, tool_name : {"Bash"}, command : SuggestCommands]
    \cup [op : {"worktree_suggestion"}, tool_name : {"Bash", "Read"}, command : SuggestSegments]

SuggestRepos ==
    {[CleanRepo EXCEPT !.branch = [d \in GitDirs |-> b],
                       !.status = [f \in GitFiles |-> IF f = "README.md" THEN m ELSE ""],
                       !.in_worktree = w] :
        b \in {"main", "PROJ-123-feature"}, m \in {"", " M"}, w \in BOOLEAN}

InitSuggest ==
    /\ pc = "start"
    /\ request \in SuggestRequests
    /\ repo \in SuggestRepos
    /\ flag_file = FALSE
    /\ result = NoResult
    /\ history = <<>>

\* worktree_suggestion.main: approve, with the suggestion when there is one
WorktreeSuggestionHook ==
    /\ pc = "start"
    /\ request.op = "worktree_suggestion"
    /\ result' = IF request.tool_name # "Bash" THEN Verdict("allow", "none")
                 ELSE [verdict |-> "allow", reason |-> "none",
                       context |-> check_worktree_suggestion(repo, request.command)]
    /\ pc' = "done"
    /\ UNCHANGED <<request, repo, flag_file, history>>

NextSuggest == GitPreHook \/ WorktreeSuggestionHook

SpecSuggest == InitSuggest /\ [][NextSuggest]_vars

\* the git hook ended with a suggestion attached
Suggested == pc = "done" /\ request.op = "git_pre_hook" /\ result.context # ""

\* C30: the advisory check never blocks: worktree_suggestion always allows,
\* and the git hook attaches the suggestion only to an Allow verdict, never
\* when one of its blocking checks returned Deny or Ask
C30_SuggestionOnlyWhenNoCheckObjects ==
    /\ (pc = "done" /\ request.op = "worktree_suggestion") => result.verdict = "allow"
    /\ Suggested =>
          /\ result.verdict = "allow"
          /\ GitCheckVerdicts(GitChecks(repo, expand_command_aliases(repo, request.command)))
                \subseteq {"allow"}

\* the suggestion is attached to Allow verdicts only, and never when a check
\* returned Deny or the branch check returned Ask
SuggestionOnlyOnAllow ==
    Suggested =>
        /\ result.verdict = "allow"
        /\ "deny" \notin GitCheckVerdicts(GitChecks(repo, expand_command_aliases(repo, request.command)))
        /\ GitChecks(repo, expand_command_aliases(repo, request.command)).workflow.decision = "allow"

\* a feature branch created on its own gets the suggestion with its Allow
SuggestionAttached ==
    /\ Suggested
    /\ request.command = "git checkout -b PROJ-123-new"
    /\ result.verdict = "allow"
====
